---- MODULE Spec2Model ----
(***************************************************************************)
(* x402-sdk: payment verification, settlement routing and the 402          *)
(* challenge-response middleware, modelled from the TypeScript sources.    *)
(*                                                                         *)
(* Conventions                                                             *)
(*  - the JavaScript value `undefined` is the string "undefined";          *)
(*  - an optional number is a sequence: <<>> (absent) or <<n>>;            *)
(*  - a decimal amount is [kind, digits, scale]: digits * 10^-scale, or    *)
(*    kind = "nan" for a value parseFloat/Number turns into NaN, kind =    *)
(*    "undefined" for a missing amount;                                    *)
(*  - a call that can throw returns a record with ok = FALSE.              *)
(***************************************************************************)
EXTENDS Integers, Sequences, FiniteSets, TLC

VARIABLES
    \* PaymentVerifier harness: one call of verifyPaymentInstructions / verifyPayment
    vTx, vCfg, vRes, vPc,
    \* middleware: fixed configuration and the requests in flight
    opts, req, pc, resp, verif, ledger, sig, nextCalls,
    \* X402SDK instance and one pay() call
    sdk, payIn, payPc, payPath, payTx, payUrl, payOut, net,
    \* PaymentBuilder: its config object, the outcome of the last build() and
    \* the field values the config object had when that build() ran
    bConfig, bRet, bSnap,
    \* one conversion of an amount to base units and back
    uAmount, uDecimals, uUnits, uBack, uPc,
    \* one configuration taken to x402 requirements and back
    xCfg, xNet, xReq, xBack, xPc,
    \* one configuration assembled into a transaction against a ledger, and
    \* the transaction verified against the same configuration
    aCfg, aLedger, aBuilt, aRes, aPc,
    \* one payForResource() call on the X402SDK instance
    rReq, rOpts, rPc, rPath, rUrl, rOut, rNet

vars == <<vTx, vCfg, vRes, vPc, opts, req, pc, resp, verif, ledger, sig, nextCalls,
          sdk, payIn, payPc, payPath, payTx, payUrl, payOut, net,
          bConfig, bRet, bSnap, uAmount, uDecimals, uUnits, uBack, uPc,
          xCfg, xNet, xReq, xBack, xPc, aCfg, aLedger, aBuilt, aRes, aPc,
          rReq, rOpts, rPc, rPath, rUrl, rOut, rNet>>

verifyVars == <<vTx, vCfg, vRes, vPc>>
mwVars     == <<opts, req, pc, resp, verif, ledger, sig, nextCalls>>
payVars    == <<sdk, payIn, payPc, payPath, payTx, payUrl, payOut, net>>
builderVars == <<bConfig, bRet, bSnap>>
unitsVars   == <<uAmount, uDecimals, uUnits, uBack, uPc>>
x402Vars    == <<xCfg, xNet, xReq, xBack, xPc>>
assembleVars == <<aCfg, aLedger, aBuilt, aRes, aPc>>
resourceVars == <<rReq, rOpts, rPc, rPath, rUrl, rOut, rNet>>

Undefined == "undefined"

(***************************************************************************)
(* Bounds of the model                                                     *)
(***************************************************************************)
MaxInstr == 2      \* instructions per transaction
MaxAmountDigits == 120   \* amounts are 0 .. 120 units of 10^-scale
MaxScale == 3      \* fractional digits of an amount
MaxDecimals == 12  \* decimals of a token

(***************************************************************************)
(* Numbers                                                                 *)
(***************************************************************************)
RECURSIVE Pow10(_)
Pow10(n) == IF n = 0 THEN 1 ELSE 10 * Pow10(n - 1)

Num(d, s) == [kind |-> "num", digits |-> d, scale |-> s]
NaN       == [kind |-> "nan", digits |-> 0, scale |-> 0]
NoAmount  == [kind |-> "undefined", digits |-> 0, scale |-> 0]

\* floor(a / b) for b > 0, also for negative a (Math.floor rounds down)
FloorDiv(a, b) == IF a >= 0 THEN a \div b ELSE -((-a + b - 1) \div b)

(***************************************************************************)
(* Natural numbers beyond the machine word, as little-endian sequences of  *)
(* 15-bit limbs without leading zero limbs (<<>> is 0): what a double's    *)
(* 53-bit significand and a BigInt hold                                    *)
(***************************************************************************)
RECURSIVE Pow2(_)
Pow2(n) == IF n = 0 THEN 1 ELSE 2 * Pow2(n - 1)

Limb == Pow2(15)

RECURSIVE Norm(_)
Norm(x) == IF x # <<>> /\ x[Len(x)] = 0 THEN Norm(SubSeq(x, 1, Len(x) - 1)) ELSE x

RECURSIVE FromInt(_)
FromInt(n) == IF n = 0 THEN <<>> ELSE <<n % Limb>> \o FromInt(n \div Limb)

RECURSIVE ToInt(_)
ToInt(x) == IF x = <<>> THEN 0 ELSE x[1] + Limb * ToInt(Tail(x))

\* x * c + carry for 0 <= c, carry < 2^15
RECURSIVE MulAdd(_, _, _)
MulAdd(x, c, carry) ==
    IF x = <<>> THEN FromInt(carry)
    ELSE LET v == x[1] * c + carry
         IN <<v % Limb>> \o MulAdd(Tail(x), c, v \div Limb)

MulSmall(x, c) == Norm(MulAdd(x, c, 0))
AddSmall(x, c) == Norm(MulAdd(x, 1, c))

\* x div c and x mod c for 0 < c < 2^15, from the top limb down
RECURSIVE DivRem(_, _, _)
DivRem(x, c, r) ==
    IF x = <<>> THEN [q |-> <<>>, r |-> r]
    ELSE LET v    == r * Limb + x[Len(x)]
             rest == DivRem(SubSeq(x, 1, Len(x) - 1), c, v % c)
         IN [q |-> Append(rest.q, v \div c), r |-> rest.r]

NormQuotient(d) == [q |-> Norm(d.q), r |-> d.r]
DivSmall(x, c) == NormQuotient(DivRem(x, c, 0))

RECURSIVE MulPow10(_, _)
MulPow10(x, n) == IF n = 0 THEN x ELSE MulPow10(MulSmall(x, 10), n - 1)

RECURSIVE Zeros(_)
Zeros(n) == IF n = 0 THEN <<>> ELSE <<0>> \o Zeros(n - 1)

\* x * 2^t
ShiftLeft(x, t) ==
    IF x = <<>> THEN <<>>
    ELSE MulSmall(Zeros(t \div 15) \o x, Pow2(t % 15))

\* x div 2^t, and whether a non-zero bit was shifted out
WithSticky(d, low) == [q |-> d.q, sticky |-> d.r # 0 \/ Norm(low) # <<>>]
ShiftRight(x, t) ==
    LET w == t \div 15
    IN WithSticky(DivSmall(IF w >= Len(x) THEN <<>> ELSE SubSeq(x, w + 1, Len(x)),
                           Pow2(t % 15)),
                  IF w >= Len(x) THEN x ELSE SubSeq(x, 1, w))

RECURSIVE BitLenInt(_)
BitLenInt(n) == IF n = 0 THEN 0 ELSE 1 + BitLenInt(n \div 2)

\* the number of bits of x
BitLen(x) == IF x = <<>> THEN 0 ELSE 15 * (Len(x) - 1) + BitLenInt(x[Len(x)])

\* x < y
RECURSIVE Less(_, _)
Less(x, y) ==
    IF Len(x) # Len(y) THEN Len(x) < Len(y)
    ELSE IF x = <<>> THEN FALSE
    ELSE IF x[Len(x)] # y[Len(y)] THEN x[Len(x)] < y[Len(y)]
    ELSE Less(SubSeq(x, 1, Len(x) - 1), SubSeq(y, 1, Len(y) - 1))

\* x / 2^t rounded to the nearest integer, ties to the even one (t >= 1)
TiesToEven(half, sticky) ==
    IF half.r = 1 /\ (sticky \/ (half.q # <<>> /\ half.q[1] % 2 = 1))
    THEN AddSmall(half.q, 1)
    ELSE half.q
RoundHalf(s1) == TiesToEven(DivSmall(s1.q, 2), s1.sticky)
RoundShift(x, t) == RoundHalf(ShiftRight(x, t - 1))

(***************************************************************************)
(* IEEE-754 doubles: a positive double is sig * 2^(-exp) with sig < 2^53   *)
(***************************************************************************)
\* x rounded to 53 significant bits: [sig, exp] with value sig * 2^(-exp),
\* given x * 2^(-e) exactly
RoundBits(x, e, n) ==
    IF n <= 53 THEN [sig |-> x, exp |-> e]
    ELSE [sig |-> RoundShift(x, n - 53), exp |-> e - (n - 53)]
RoundTo53(x, e) == RoundBits(x, e, BitLen(x))

\* the least k >= 0 with n * 2^k >= c, for small n > 0
RECURSIVE ShiftUntil(_, _)
ShiftUntil(n, c) == IF n >= c THEN 0 ELSE 1 + ShiftUntil(2 * n, c)

\* the double nearest to digits / 10^scale (a numeric literal or parseFloat
\* of a decimal string), digits > 0
\* the quotient d of a division by 2^(-k), with one more bit that records a
\* non-zero remainder, so that the value is rounded once
RoundQuotient(d, inexact, k) == RoundTo53(MulAdd(d.q, 2, IF inexact THEN 1 ELSE 0), k + 1)
RoundRemainder(d, k) == RoundQuotient(d, d.r # 0, k)
DoubleOfRatio(digits, c, k) == RoundRemainder(DivSmall(ShiftLeft(FromInt(digits), k), c), k)
DoubleOfOver(digits, c) == DoubleOfRatio(digits, c, 53 + ShiftUntil(digits, c))
DoubleOf(digits, scale) == DoubleOfOver(digits, Pow10(scale))

\* a * 10^decimals, the product of two doubles (10^decimals is exact)
TimesPow10(a, decimals) == RoundTo53(MulPow10(a.sig, decimals), a.exp)

\* Math.floor of a positive double
Floor(a) == IF a.exp <= 0 THEN ShiftLeft(a.sig, -a.exp) ELSE ShiftRight(a.sig, a.exp).q

\* Math.ceil of a positive double
RoundUp(s1) == IF s1.sticky THEN AddSmall(s1.q, 1) ELSE s1.q
Ceil(a) ==
    IF a.exp <= 0 THEN ShiftLeft(a.sig, -a.exp)
    ELSE RoundUp(ShiftRight(a.sig, a.exp))

\* |Math.floor(amountNumber * Math.pow(10, decimals))| in double arithmetic
\* Math.floor of the double a or of -a, as a magnitude
FloorAbs(a, positive) == IF positive THEN Floor(a) ELSE Ceil(a)
AbsInt(n) == IF n >= 0 THEN n ELSE -n
ScaleFloorAbs(amount, decimals) ==
    IF amount.digits = 0 THEN <<>>
    ELSE FloorAbs(TimesPow10(DoubleOf(AbsInt(amount.digits), amount.scale), decimals),
                  amount.digits > 0)

\* Math.floor(amountNumber * Math.pow(10, decimals))
WithSign(n, magnitude) == IF n >= 0 THEN magnitude ELSE -magnitude
ScaleFloor(amount, decimals) ==
    WithSign(amount.digits, ToInt(ScaleFloorAbs(amount, decimals)))

\* x - y for x >= y
RECURSIVE SubBorrow(_, _, _)
SubBorrow(x, y, borrow) ==
    IF x = <<>> THEN <<>>
    ELSE LET yl == IF y = <<>> THEN 0 ELSE y[1]
             v  == x[1] - yl - borrow
         IN <<IF v < 0 THEN v + Limb ELSE v>>
              \o SubBorrow(Tail(x), IF y = <<>> THEN <<>> ELSE Tail(y),
                           IF v < 0 THEN 1 ELSE 0)

Sub(x, y) == Norm(SubBorrow(x, y, 0))

RECURSIVE DivPow10(_, _)
\* x div 10^n, and whether the division left a remainder
DivPow10(x, n) ==
    IF n = 0 THEN [q |-> x, sticky |-> FALSE]
    ELSE LET d    == DivSmall(x, 10)
             rest == DivPow10(d.q, n - 1)
         IN [q |-> rest.q, sticky |-> rest.sticky \/ d.r # 0]

Zero == [sig |-> <<>>, exp |-> 0]

\* the double of an amount
NumberOf(amount) ==
    IF amount.digits = 0 THEN Zero ELSE DoubleOf(amount.digits, amount.scale)

\* toTokenUnits for a non-negative amount, with the BigInt it returns as limbs
toTokenUnitsBigInt(amount, decimals) == ScaleFloorAbs(amount, decimals)

\* fromTokenUnits: Number(amount) / Math.pow(10, decimals), one correctly
\* rounded division (the units are below 2^53, so Number(amount) is exact)
fromTokenUnits(units, decimals) ==
    IF units = <<>> THEN Zero
    ELSE LET d == DivPow10(ShiftLeft(units, 95), decimals)
         IN RoundQuotient(d, d.sticky, 95)

\* toTokenUnits: BigInt(Math.floor(NaN)) throws a RangeError
toTokenUnits(amount, decimals) ==
    IF amount.kind # "num"
    THEN [ok |-> FALSE, val |-> 0]
    ELSE [ok |-> TRUE, val |-> ScaleFloor(amount, decimals)]

\* `decimals || (tokenType === 'SOL' ? 9 : 6)`: absent and 0 are both falsy
DecimalsOrDefault(cfg) ==
    IF cfg.decimals # <<>> /\ cfg.decimals[1] # 0
    THEN cfg.decimals[1]
    ELSE IF cfg.tokenType = "SOL" THEN 9 ELSE 6

(***************************************************************************)
(* Addresses                                                               *)
(***************************************************************************)
\* strings `new PublicKey(s)` rejects
InvalidKeyStrings == {"bad", ""}
\* valid addresses that are not on the curve (program-derived): an
\* associated token address cannot be derived for such an owner
OffCurve == {"Rpda"}

PublicKeyThrows(s) == s \in InvalidKeyStrings

\* getAssociatedTokenAddress(mint, owner)
ATA(mint, owner) == "ata(" \o mint \o "," \o owner \o ")"

SYSTEM_PROGRAM   == "11111111111111111111111111111111"
TOKEN_PROGRAM_ID == "TokenkegQfeZyiNwAJbNbGKPFXCWuBvf9Ss623VQ5DA"

(***************************************************************************)
(* Instruction data                                                        *)
(***************************************************************************)
\* little-endian bytes of n, `k` of them
RECURSIVE LEBytes(_, _)
LEBytes(n, k) == IF k = 0 THEN <<>> ELSE <<n % 256>> \o LEBytes(n \div 256, k - 1)

\* little-endian value of a byte sequence
RECURSIVE LEValue(_)
LEValue(bytes) ==
    IF bytes = <<>> THEN 0 ELSE Head(bytes) + 256 * LEValue(Tail(bytes))

\* Buffer.readBigUInt64LE(offset): RangeError when 8 bytes are not there
readBigUInt64LE(data, offset) ==
    IF offset + 8 > Len(data)
    THEN [ok |-> FALSE, val |-> 0]
    ELSE [ok |-> TRUE, val |-> LEValue(SubSeq(data, offset + 1, offset + 8))]

Ix(prog, keys, data) == [kind |-> "ix", programId |-> prog, keys |-> keys, data |-> data]
\* a null entry of the instruction list: every property access throws
NullIx == [kind |-> "null", programId |-> Undefined, keys |-> <<>>, data |-> <<>>]

\* SystemProgram.transfer({fromPubkey, toPubkey, lamports})
SystemTransfer(from, to, lamports) ==
    Ix(SYSTEM_PROGRAM, <<from, to>>, LEBytes(2, 4) \o LEBytes(lamports, 8))

\* createTransferInstruction(source, destination, owner, amount)
TokenTransfer(source, dest, owner, amount) ==
    Ix(TOKEN_PROGRAM_ID, <<source, dest, owner>>, <<3>> \o LEBytes(amount, 8))

\* createTransferCheckedInstruction(source, mint, dest, owner, amount, decimals)
TokenTransferChecked(source, mint, dest, owner, amount, decimals) ==
    Ix(TOKEN_PROGRAM_ID, <<source, mint, dest, owner>>,
       <<12>> \o LEBytes(amount, 8) \o <<decimals>>)

(***************************************************************************)
(* Transactions                                                            *)
(***************************************************************************)
\* a Transaction object
TxObj(instrs) == [kind |-> "tx", instructions |-> instrs]
\* an object whose `instructions` is undefined, and null
NoInstrTx == [kind |-> "noinstr", instructions |-> <<>>]
NullTx    == [kind |-> "null", instructions |-> <<>>]
\* tx.serialize().toString('base64'), and a string that is no transaction
Base64Tx(instrs) == [kind |-> "base64", instructions |-> instrs]
JunkString       == [kind |-> "junk", instructions |-> <<>>]

\* Transaction.from(Buffer.from(s, 'base64')): throws on bytes that are no
\* transaction; the decoded instructions are those that were serialized
TransactionFrom(s) ==
    IF s.kind = "base64"
    THEN [ok |-> TRUE, tx |-> TxObj(s.instructions)]
    ELSE [ok |-> FALSE, tx |-> NullTx]

(***************************************************************************)
(* token-utils: instruction verification                                   *)
(***************************************************************************)
\* the try block of verifySOLTransferInstruction: "true", "false" or "throw"
SOLTransferTry(instruction, expectedRecipient, expectedAmount) ==
    IF instruction.kind = "null" \/ instruction.programId = Undefined
    THEN "throw"
    ELSE IF instruction.programId # SYSTEM_PROGRAM
    THEN "false"
    ELSE IF Len(instruction.data) = 12 /\ instruction.data[1] = 2
    THEN LET transferAmount == readBigUInt64LE(instruction.data, 4) IN
         IF ~transferAmount.ok THEN "throw"
         ELSE IF transferAmount.val < expectedAmount THEN "false"
         ELSE IF Len(instruction.keys) >= 2
         THEN IF expectedRecipient = Undefined
              THEN "throw"
              ELSE IF instruction.keys[2] = expectedRecipient
                      /\ transferAmount.val >= expectedAmount
                   THEN "true" ELSE "false"
         ELSE "false"
    ELSE "false"

\* catch (error) { return false; }
verifySOLTransferInstruction(instruction, expectedRecipient, expectedAmount) ==
    SOLTransferTry(instruction, expectedRecipient, expectedAmount) = "true"

\* the try block of verifySPLTransferInstruction; expectedMint is Undefined
\* when the caller has none
SPLTransferTry(instruction, expectedRecipient, expectedAmount, expectedMint) ==
    IF instruction.kind = "null" \/ instruction.programId = Undefined
    THEN "throw"
    ELSE IF instruction.programId # TOKEN_PROGRAM_ID
    THEN "false"
    ELSE IF Len(instruction.data) >= 9 /\ instruction.data[1] = 3
    THEN LET transferAmount == readBigUInt64LE(instruction.data, 1) IN
         IF ~transferAmount.ok THEN "throw"
         ELSE IF transferAmount.val < expectedAmount THEN "false"
         ELSE IF Len(instruction.keys) >= 2
         THEN IF expectedMint # Undefined
              THEN \* getAssociatedTokenAddress throws for an off-curve or
                   \* missing owner; the inner catch returns false
                   IF expectedRecipient = Undefined \/ expectedRecipient \in OffCurve
                   THEN "false"
                   ELSE IF instruction.keys[2] # ATA(expectedMint, expectedRecipient)
                   THEN "false"
                   ELSE IF transferAmount.val >= expectedAmount THEN "true" ELSE "false"
              ELSE "false"
         ELSE "false"
    ELSE "false"

\* a variant that, without a mint, skips the destination check instead of
\* refusing
verifySPLTransferInstruction_NoMintSkipsCheck(instruction, expectedRecipient, expectedAmount, expectedMint) ==
    IF expectedMint = Undefined
    THEN /\ instruction.kind = "ix"
         /\ instruction.programId = TOKEN_PROGRAM_ID
         /\ Len(instruction.data) >= 9 /\ instruction.data[1] = 3
         /\ readBigUInt64LE(instruction.data, 1).val >= expectedAmount
         /\ Len(instruction.keys) >= 2
    ELSE SPLTransferTry(instruction, expectedRecipient, expectedAmount, expectedMint) = "true"

verifySPLTransferInstruction(instruction, expectedRecipient, expectedAmount, expectedMint) ==
    SPLTransferTry(instruction, expectedRecipient, expectedAmount, expectedMint) = "true"

(***************************************************************************)
(* PaymentVerifier.verifyPaymentInstructions                               *)
(***************************************************************************)
Resolved(valid, err, details) ==
    [outcome |-> "resolved", isValid |-> valid, error |-> err, details |-> details]
Rejected(msg) ==
    [outcome |-> "rejected", isValid |-> FALSE, error |-> msg, details |-> <<>>]

Truthy(s) == s # Undefined /\ s # ""

\* the loop over transaction.instructions: "valid" at the first instruction
\* that verifies, "none" at the end, "throw" when the mint does not parse
RECURSIVE ScanInstructions(_, _, _, _)
ScanInstructions(instrs, expectedConfig, recipient, expectedAmount) ==
    IF instrs = <<>> THEN "none"
    ELSE LET instruction == Head(instrs) IN
         IF expectedConfig.tokenType = "SOL"
         THEN IF verifySOLTransferInstruction(instruction, recipient, expectedAmount)
              THEN "valid"
              ELSE ScanInstructions(Tail(instrs), expectedConfig, recipient, expectedAmount)
         ELSE IF Truthy(expectedConfig.mintAddress)
                 /\ PublicKeyThrows(expectedConfig.mintAddress)
         THEN "throw"
         ELSE LET mint == IF Truthy(expectedConfig.mintAddress)
                          THEN expectedConfig.mintAddress ELSE Undefined IN
              IF verifySPLTransferInstruction(instruction, recipient, expectedAmount, mint)
              THEN "valid"
              ELSE ScanInstructions(Tail(instrs), expectedConfig, recipient, expectedAmount)

\* the try block: a result, or outcome "throw" with the error's message
VerifyTry(transaction, expectedConfig) ==
    IF expectedConfig.recipient # Undefined /\ PublicKeyThrows(expectedConfig.recipient)
    THEN [outcome |-> "throw", isValid |-> FALSE,
          error |-> "Invalid public key input", details |-> <<>>]
    ELSE
    LET recipient      == expectedConfig.recipient
        decimals       == DecimalsOrDefault(expectedConfig)
        expectedAmount == toTokenUnits(expectedConfig.amount, decimals)
    IN
    IF ~expectedAmount.ok
    THEN [outcome |-> "throw", isValid |-> FALSE,
          error |-> "The number NaN cannot be converted to a BigInt", details |-> <<>>]
    ELSE IF transaction.kind = "null"
    THEN [outcome |-> "throw", isValid |-> FALSE,
          error |-> "Cannot read properties of null", details |-> <<>>]
    ELSE IF transaction.kind # "tx"
    THEN [outcome |-> "throw", isValid |-> FALSE,
          error |-> "transaction.instructions is not iterable", details |-> <<>>]
    ELSE
    LET scan == ScanInstructions(transaction.instructions, expectedConfig,
                                 recipient, expectedAmount.val)
    IN
    IF scan = "throw"
    THEN [outcome |-> "throw", isValid |-> FALSE,
          error |-> "Invalid public key input", details |-> <<>>]
    ELSE IF scan = "valid"
    THEN Resolved(TRUE, Undefined,
                  << [amount      |-> expectedAmount.val,
                      recipient   |-> recipient,
                      tokenType   |-> expectedConfig.tokenType,
                      mintAddress |-> IF Truthy(expectedConfig.mintAddress)
                                      THEN expectedConfig.mintAddress
                                      ELSE Undefined] >>)
    ELSE Resolved(FALSE,
                  "No valid " \o expectedConfig.tokenType \o " transfer instruction found",
                  <<>>)

\* a variant without the catch: the error reaches the caller
verifyPaymentInstructions_NoCatch(transaction, expectedConfig) ==
    LET r == VerifyTry(transaction, expectedConfig) IN
    IF r.outcome = "throw" THEN Rejected(r.error) ELSE r

\* try { ... } catch (error) { return {isValid: false, error: `Verification failed: ...`} }
verifyPaymentInstructions(transaction, expectedConfig) ==
    LET r == VerifyTry(transaction, expectedConfig) IN
    IF r.outcome = "throw"
    THEN Resolved(FALSE, "Verification failed: " \o r.error, <<>>)
    ELSE r

(***************************************************************************)
(* X402SDK.verifyPayment                                                   *)
(***************************************************************************)
\* a string is decoded first; the promise of verifyPaymentInstructions is
\* returned as it is
verifyPayment(transaction, expectedConfig) ==
    IF transaction.kind \in {"base64", "junk"}
    THEN LET decoded == TransactionFrom(transaction) IN
         IF ~decoded.ok
         THEN Resolved(FALSE, "Verification failed: " \o "invalid transaction bytes", <<>>)
         ELSE verifyPaymentInstructions(decoded.tx, expectedConfig)
    ELSE verifyPaymentInstructions(transaction, expectedConfig)

(***************************************************************************)
(* Inputs of the verifier harness                                          *)
(***************************************************************************)
Cfg(t, a, r, m, d) ==
    [tokenType |-> t, amount |-> a, recipient |-> r, mintAddress |-> m,
     decimals |-> d, createAccountIfNeeded |-> TRUE]

TokenTypes == {"SOL", "USDC", "SPL"}

\* well-formed instructions a client can put into a transaction
WellFormedIx ==
    {SystemTransfer("P", "R", 999999), SystemTransfer("P", "R", 1000000),
     SystemTransfer("P", "R2", 1000000),
     \* first byte 2, but the 4-byte tag is 258
     Ix(SYSTEM_PROGRAM, <<"P", "R">>, <<2, 1, 0, 0>> \o LEBytes(1000000, 8)),
     \* transfer-shaped data for another program
     Ix("Other", <<"P", "R">>, LEBytes(2, 4) \o LEBytes(1000000, 8)),
     TokenTransfer(ATA("M", "P"), ATA("M", "R"), "P", 999999),
     TokenTransfer(ATA("M", "P"), ATA("M", "R"), "P", 1000000),
     TokenTransfer(ATA("M", "P"), ATA("M", "R2"), "P", 1000000),
     TokenTransferChecked(ATA("M", "P"), "M", ATA("M", "R"), "P", 1000000, 6)}

\* entries only a hand-made transaction object can hold
MalformedIx == {NullIx, Ix(Undefined, <<"P", "R">>, LEBytes(2, 4) \o LEBytes(1000000, 8))}

IxPool == WellFormedIx \cup MalformedIx

SeqsUpTo(S, n) == UNION {[1..k -> S] : k \in 0..n}

TxInputs ==
    {TxObj(is) : is \in SeqsUpTo(IxPool, MaxInstr)}
    \cup {NoInstrTx, NullTx, JunkString}
    \cup {Base64Tx(is) : is \in SeqsUpTo(WellFormedIx, 1)}

CfgPool ==
    {Cfg(t, a, "R", m, d) : t \in TokenTypes, a \in {Num(1, 3), Num(1, 0)},
                             m \in {Undefined, "M"},
                             d \in {<<>>, <<0>>, <<6>>, <<9>>}}
    \cup
    {Cfg(t, a, r, m, <<>>) : t \in TokenTypes, a \in {Num(1, 3), NaN},
                              r \in {"bad", "Rpda", Undefined},
                              m \in {"M", "bad", ""}}

NoResult == [outcome |-> "none", isValid |-> FALSE, error |-> Undefined, details |-> <<>>]

VerifyIdle ==
    /\ vTx = NullTx
    /\ vCfg = Cfg("SOL", NaN, Undefined, Undefined, <<>>)
    /\ vRes = NoResult
    /\ vPc = "idle"

VerifyInit ==
    /\ vTx \in TxInputs
    /\ vCfg \in CfgPool
    /\ vRes = NoResult
    /\ vPc = "ready"

\* await PaymentVerifier.verifyPaymentInstructions(vTx, vCfg)
CallVerifyPaymentInstructions ==
    /\ vPc = "ready"
    /\ vRes' = verifyPaymentInstructions(vTx, vCfg)
    /\ vPc' = "verifyPaymentInstructions"
    /\ UNCHANGED <<vTx, vCfg>>

\* await sdk.verifyPayment(vTx, vCfg)
CallVerifyPayment ==
    /\ vPc = "ready"
    /\ vRes' = verifyPayment(vTx, vCfg)
    /\ vPc' = "verifyPayment"
    /\ UNCHANGED <<vTx, vCfg>>

VerifyNext ==
    \/ CallVerifyPaymentInstructions /\ UNCHANGED <<mwVars, payVars, builderVars, unitsVars, x402Vars, assembleVars, resourceVars>>
    \/ CallVerifyPayment /\ UNCHANGED <<mwVars, payVars, builderVars, unitsVars, x402Vars, assembleVars, resourceVars>>

(***************************************************************************)
(* token-utils: clusters                                                   *)
(***************************************************************************)
USDC_DEVNET_MINT  == "4zMMC9srt5Ri5X14GAgXhaHii3GnPAEERYPJgZJDncDU"
USDC_MAINNET_MINT == "EPjFWdd5AufqSSqeM2qN1xzybapC8G4wEGGkZwyTDt1v"

\* network.includes('mainnet'), on the labels of the model
IncludesMainnet(network) == network \in {"solana-mainnet", "mainnet-beta", "mainnet"}

getUSDCMint(network) ==
    IF IncludesMainnet(network) THEN USDC_MAINNET_MINT ELSE USDC_DEVNET_MINT

\* the cluster getConnection connects to
getConnection(network) == IF network = "solana-mainnet" THEN "mainnet-beta" ELSE "devnet"

(***************************************************************************)
(* server: createPaymentMiddleware                                         *)
(***************************************************************************)
Requests == {"r1", "r2"}

\* const network = opts.network || 'solana-devnet'
Network(o) == IF Truthy(o.network) THEN o.network ELSE "solana-devnet"

\* Math.round(amount * 10^k): to the nearest integer, halves upwards
ScaleRound(amount, k) ==
    FloorDiv(2 * amount.digits * Pow10(k) + Pow10(amount.scale), 2 * Pow10(amount.scale))

\* a variant that leaves the mint out of the challenge
ChallengeBody_NoMint(o) ==
    [recipient   |-> o.recipient,
     amount      |-> ScaleRound(o.price, IF o.tokenType = "SOL" THEN 0 ELSE 6),
     cluster     |-> IF IncludesMainnet(Network(o)) THEN "mainnet" ELSE "devnet",
     tokenType   |-> o.tokenType,
     mintAddress |-> Undefined]

\* the body of the 402 challenge
ChallengeBody(o) ==
    [recipient   |-> o.recipient,
     amount      |-> ScaleRound(o.price, IF o.tokenType = "SOL" THEN 0 ELSE 6),
     cluster     |-> IF IncludesMainnet(Network(o)) THEN "mainnet" ELSE "devnet",
     tokenType   |-> o.tokenType,
     mintAddress |-> o.mintAddress]

\* the expected PaymentConfig, rebuilt from the options for every request
ExpectedConfig(o) ==
    [tokenType   |-> o.tokenType,
     amount      |-> o.price,
     recipient   |-> o.recipient,
     mintAddress |-> IF Truthy(o.mintAddress) THEN o.mintAddress
                     ELSE IF o.tokenType = "USDC" THEN getUSDCMint(Network(o))
                     ELSE Undefined,
     decimals    |-> IF o.tokenType = "SOL" THEN <<9>> ELSE <<6>>,
     createAccountIfNeeded |-> TRUE]

\* a value of the X-Payment header. kind: "none" (no header), "empty",
\* "garbage" (base64 of something JSON.parse rejects), "jsonnull" (JSON null),
\* "json" (an object; payload.serializedTransaction and payload.serialized
\* are serialized transactions, UndefinedField or the empty string)
UndefinedField == [kind |-> "undefined", instructions |-> <<>>]
EmptyString    == [kind |-> "empty", instructions |-> <<>>]
FieldTruthy(f) == f.kind \notin {"undefined", "empty"}
Header(k, st, sd) == [kind |-> k, serializedTransaction |-> st, serialized |-> sd]
NoHeader == Header("none", UndefinedField, UndefinedField)

\* PaymentUtils.parseX402Header
parseX402Header(h) ==
    IF h.kind = "garbage"
    THEN [ok |-> FALSE, error |-> "Invalid x402 payment header format"]
    ELSE [ok |-> TRUE, error |-> Undefined]

\* the synchronous head of the handler: what the header leads to
\*   "challenge": no payment provided;  "reject": 402 with `error`;
\*   "proceed": verifyAndSubmitSerializedTransaction(serialized, ...)
DecodeHeader(h) ==
    IF h.kind \in {"none", "empty"}
    THEN [next |-> "challenge", error |-> "Payment Required", serialized |-> UndefinedField]
    ELSE LET parsed == parseX402Header(h) IN
    IF ~parsed.ok
    THEN [next |-> "reject", error |-> parsed.error, serialized |-> UndefinedField]
    ELSE IF h.kind = "jsonnull"
    THEN [next |-> "reject", error |-> "Cannot read properties of null",
          serialized |-> UndefinedField]
    ELSE LET serialized == IF FieldTruthy(h.serializedTransaction)
                           THEN h.serializedTransaction ELSE h.serialized IN
    IF ~FieldTruthy(serialized)
    THEN [next |-> "reject", error |-> "Missing serialized transaction in X-Payment",
          serialized |-> UndefinedField]
    ELSE [next |-> "proceed", error |-> Undefined, serialized |-> serialized]

\* responses
NoResponse == [status |-> 0, error |-> Undefined, message |-> Undefined,
               payment |-> <<>>, paymentDetails |-> <<>>]
\* a variant answering with the wrong status
Reject402_Status400(err) == [status |-> 400, error |-> err, message |-> Undefined,
                             payment |-> <<>>, paymentDetails |-> <<>>]
Reject402(err) == [status |-> 402, error |-> err, message |-> Undefined,
                   payment |-> <<>>, paymentDetails |-> <<>>]
Challenge402(o) == [status |-> 402, error |-> "Payment Required", message |-> Undefined,
                    payment |-> <<ChallengeBody(o)>>, paymentDetails |-> <<>>]
Verified200(signature, explorerUrl) ==
    [status |-> 200, error |-> Undefined, message |-> "Payment verified",
     payment |-> <<>>,
     paymentDetails |-> <<[signature |-> signature, explorerUrl |-> explorerUrl]>>]

\* the explorer link of verifyAndSubmitSerializedTransaction
ServerExplorerUrl(signature, network) ==
    "https://explorer.solana.com/tx/" \o signature \o "?cluster="
        \o (IF IncludesMainnet(network) THEN "mainnet-beta" ELSE "devnet")

\* a variant that never looks at the verification
VerificationPasses_Always(verification) == TRUE
\* `if (!verification.isValid)`: the verification lets the call go on
VerificationPasses(verification) == verification.isValid

\* an RPC answer is "ok", "err", "novalue" (no value field) or "throw"
\* `simulation.value && simulation.value.err`
SimulationFailed(answer) == answer = "err"
\* a variant that never looks at the confirmation
ConfirmationFailed_Never(answer) == FALSE
\* `confirmation.value && confirmation.value.err`
ConfirmationFailed(answer) == answer = "err"

RpcAnswers == {"ok", "err", "novalue", "throw"}

Call(name, answer) == [call |-> name, answer |-> answer]

\* serialized transactions clients send
SerPool ==
    {JunkString, Base64Tx(<<>>),
     Base64Tx(<<SystemTransfer("P", "R", 1000000)>>),
     Base64Tx(<<SystemTransfer("P", "R", 999999)>>),
     Base64Tx(<<TokenTransfer(ATA("M", "P"), ATA("M", "R"), "P", 1000000)>>),
     Base64Tx(<<TokenTransfer(ATA(USDC_DEVNET_MINT, "P"), ATA(USDC_DEVNET_MINT, "R"),
                              "P", 1000000)>>)}

Headers ==
    {NoHeader, Header("empty", UndefinedField, UndefinedField),
     Header("garbage", UndefinedField, UndefinedField),
     Header("jsonnull", UndefinedField, UndefinedField),
     Header("json", UndefinedField, UndefinedField),
     Header("json", EmptyString, UndefinedField)}
    \cup {Header("json", s, UndefinedField) : s \in SerPool}
    \cup {Header("json", UndefinedField, s) : s \in SerPool}

Opts(price, t, r, m, n) ==
    [price |-> price, tokenType |-> t, recipient |-> r, mintAddress |-> m, network |-> n]

OptsPool ==
    {Opts(p, t, "R", m, n) : p \in {Num(1, 3), Num(1, 0)}, t \in TokenTypes,
                              m \in {Undefined, "M"},
                              n \in {Undefined, "solana-mainnet", "mainnet-beta"}}

NoOpts == Opts(NaN, Undefined, Undefined, Undefined, Undefined)

MwIdle ==
    /\ opts = NoOpts
    /\ req = [r \in Requests |-> NoHeader]
    /\ pc = [r \in Requests |-> "off"]
    /\ resp = [r \in Requests |-> NoResponse]
    /\ verif = [r \in Requests |-> NoResult]
    /\ ledger = [r \in Requests |-> <<>>]
    /\ sig = [r \in Requests |-> Undefined]
    /\ nextCalls = [r \in Requests |-> <<>>]

\* createPaymentMiddleware(opts): nothing received yet
MwInit ==
    /\ opts \in OptsPool
    /\ req = [r \in Requests |-> NoHeader]
    /\ pc = [r \in Requests |-> "idle"]
    /\ resp = [r \in Requests |-> NoResponse]
    /\ verif = [r \in Requests |-> NoResult]
    /\ ledger = [r \in Requests |-> <<>>]
    /\ sig = [r \in Requests |-> Undefined]
    /\ nextCalls = [r \in Requests |-> <<>>]

\* a variant writing the response into state shared by the requests
Respond_Shared(r, response) ==
    /\ resp' = [q \in Requests |-> response]
    /\ pc' = [pc EXCEPT ![r] = "done"]

\* every exit of the handler is `return res...json(...)`; next is called only
\* in the outer catch, with the error, and no statement of the handler reaches
\* it: nextCalls, the arguments of a request's next() calls, is left as it is
Respond(r, response) ==
    /\ resp' = [resp EXCEPT ![r] = response]
    /\ pc' = [pc EXCEPT ![r] = "done"]

\* the handler up to its first await: the header is read and decoded
MwReceive(r) ==
    /\ pc[r] = "idle"
    /\ \E h \in Headers :
         /\ req' = [req EXCEPT ![r] = h]
         /\ LET d == DecodeHeader(h) IN
            CASE d.next = "challenge" -> Respond(r, Challenge402(opts))
              [] d.next = "reject"    -> Respond(r, Reject402(d.error))
              [] OTHER                -> /\ pc' = [pc EXCEPT ![r] = "verify"]
                                         /\ UNCHANGED resp
    /\ UNCHANGED <<opts, verif, ledger, sig, nextCalls>>

\* verifyAndSubmitSerializedTransaction: Transaction.from and
\* verifyPaymentInstructions against the expected configuration
MwVerify(r) ==
    /\ pc[r] = "verify"
    /\ LET decoded == TransactionFrom(DecodeHeader(req[r]).serialized) IN
       IF ~decoded.ok
       THEN /\ Respond(r, Reject402("invalid transaction bytes"))
            /\ UNCHANGED verif
       ELSE LET verification == verifyPaymentInstructions(decoded.tx, ExpectedConfig(opts)) IN
            /\ verif' = [verif EXCEPT ![r] = verification]
            /\ IF VerificationPasses(verification)
               THEN /\ pc' = [pc EXCEPT ![r] = "simulate"]
                    /\ UNCHANGED resp
               ELSE Respond(r, Reject402(verification.error))
    /\ UNCHANGED <<opts, req, ledger, sig, nextCalls>>

\* await conn.simulateTransaction(tx)
MwSimulate(r) ==
    /\ pc[r] = "simulate"
    /\ \E answer \in RpcAnswers :
         /\ ledger' = [ledger EXCEPT ![r] = Append(@, Call("simulateTransaction", answer))]
         /\ IF answer = "throw"
            THEN Respond(r, Reject402("simulateTransaction failed"))
            ELSE IF SimulationFailed(answer)
            THEN Respond(r, Reject402("Simulation failed: err"))
            ELSE /\ pc' = [pc EXCEPT ![r] = "submit"]
                 /\ UNCHANGED resp
    /\ UNCHANGED <<opts, req, verif, sig, nextCalls>>

\* await conn.sendRawTransaction(txBuffer, ...)
MwSubmit(r) ==
    /\ pc[r] = "submit"
    /\ \E answer \in {"ok", "throw"} :
         /\ ledger' = [ledger EXCEPT ![r] = Append(@, Call("sendRawTransaction", answer))]
         /\ IF answer = "throw"
            THEN /\ Respond(r, Reject402("sendRawTransaction failed"))
                 /\ UNCHANGED sig
            ELSE /\ sig' = [sig EXCEPT ![r] = "sig-" \o r]
                 /\ pc' = [pc EXCEPT ![r] = "confirm"]
                 /\ UNCHANGED resp
    /\ UNCHANGED <<opts, req, verif, nextCalls>>

\* await conn.confirmTransaction(signature, 'confirmed'), then the response
MwConfirm(r) ==
    /\ pc[r] = "confirm"
    /\ \E answer \in RpcAnswers :
         /\ ledger' = [ledger EXCEPT ![r] = Append(@, Call("confirmTransaction", answer))]
         /\ IF answer = "throw"
            THEN Respond(r, Reject402("confirmTransaction failed"))
            ELSE IF ConfirmationFailed(answer)
            THEN Respond(r, Reject402("Transaction failed: err"))
            ELSE Respond(r, Verified200(sig[r], ServerExplorerUrl(sig[r], Network(opts))))
    /\ UNCHANGED <<opts, req, verif, sig, nextCalls>>

MwNext ==
    \/ \E r \in Requests : MwReceive(r) /\ UNCHANGED <<verifyVars, payVars, builderVars, unitsVars, x402Vars, assembleVars, resourceVars>>
    \/ \E r \in Requests : MwVerify(r) /\ UNCHANGED <<verifyVars, payVars, builderVars, unitsVars, x402Vars, assembleVars, resourceVars>>
    \/ \E r \in Requests : MwSimulate(r) /\ UNCHANGED <<verifyVars, payVars, builderVars, unitsVars, x402Vars, assembleVars, resourceVars>>
    \/ \E r \in Requests : MwSubmit(r) /\ UNCHANGED <<verifyVars, payVars, builderVars, unitsVars, x402Vars, assembleVars, resourceVars>>
    \/ \E r \in Requests : MwConfirm(r) /\ UNCHANGED <<verifyVars, payVars, builderVars, unitsVars, x402Vars, assembleVars, resourceVars>>

(***************************************************************************)
(* PaymentUtils                                                            *)
(***************************************************************************)
\* PaymentUtils.validateConfig: the list of errors, in the order pushed
validateConfig(config) ==
    (IF ~Truthy(config.tokenType) THEN <<"Token type is required">> ELSE <<>>)
    \o (IF config.amount.kind = "undefined" THEN <<"Amount is required">>
        ELSE IF config.amount.kind = "nan" \/ config.amount.digits <= 0
        THEN <<"Amount must be a positive number">> ELSE <<>>)
    \o (IF ~Truthy(config.recipient) THEN <<"Recipient is required">>
        ELSE IF PublicKeyThrows(config.recipient) THEN <<"Invalid recipient address">>
        ELSE <<>>)
    \o (IF config.tokenType # "SOL" /\ ~Truthy(config.mintAddress)
        THEN <<"Mint address is required for SPL token payments">> ELSE <<>>)
    \o (IF Truthy(config.mintAddress) /\ PublicKeyThrows(config.mintAddress)
        THEN <<"Invalid mint address">> ELSE <<>>)

\* errors.join(', ')
RECURSIVE Join(_)
Join(errors) ==
    IF errors = <<>> THEN ""
    ELSE IF Len(errors) = 1 THEN errors[1]
    ELSE errors[1] \o ", " \o Join(Tail(errors))

\* BigInt.prototype.toString(): the decimal digits, most significant first
RECURSIVE DecimalDigits(_)
DecimalDigits(x) ==
    IF x = <<>> THEN ""
    ELSE LET d == DivSmall(x, 10) IN DecimalDigits(d.q) \o ToString(d.r)

BigIntToString(x) == IF x = <<>> THEN "0" ELSE DecimalDigits(x)

\* PaymentUtils.toX402Requirements; throws when the amount is no number
toX402Requirements(config, network) ==
    LET decimals == DecimalsOrDefault(config)
        amountInTokenUnits == toTokenUnitsBigInt(config.amount, decimals)
        mint == IF Truthy(config.mintAddress) THEN config.mintAddress ELSE Undefined
    IN [ok |-> config.amount.kind = "num",
        amount   |-> (IF config.amount.digits < 0 /\ amountInTokenUnits # <<>>
                      THEN "-" ELSE "") \o BigIntToString(amountInTokenUnits),
        currency |-> config.tokenType,
        scheme   |-> "exact",
        payment_payload |-> [recipient |-> config.recipient, tokenType |-> config.tokenType,
                             mintAddress |-> mint, decimals |-> decimals,
                             network |-> network],
        tokenType   |-> config.tokenType,
        mintAddress |-> mint,
        createAccountIfNeeded |-> config.createAccountIfNeeded]

\* PaymentUtils.fromX402Requirements: the amount stays the base-unit string
fromX402Requirements(requirements) ==
    LET payload == requirements.payment_payload IN
    [tokenType   |-> IF Truthy(requirements.tokenType) THEN requirements.tokenType
                     ELSE requirements.currency,
     amount      |-> requirements.amount,
     recipient   |-> IF Truthy(payload.recipient) THEN payload.recipient ELSE "",
     mintAddress |-> IF Truthy(requirements.mintAddress) THEN requirements.mintAddress
                     ELSE payload.mintAddress,
     decimals    |-> <<payload.decimals>>,
     createAccountIfNeeded |-> requirements.createAccountIfNeeded]

\* PaymentUtils.getExplorerUrl and the link built by submitPaymentOnChain
getExplorerUrl(signature, network) ==
    "https://explorer.solana.com/tx/" \o signature \o "?cluster="
        \o (IF IncludesMainnet(network) THEN "mainnet-beta" ELSE "devnet")

(***************************************************************************)
(* FacilitatorClient                                                       *)
(***************************************************************************)
\* baseUrl.replace(/\/$/, ''): one trailing slash is removed
StripTrailingSlash(url) ==
    CASE url = "https://f/"  -> "https://f"
      [] url = "https://g//" -> "https://g/"
      [] url = "/"           -> ""
      [] OTHER               -> url

FacilitatorClient(baseUrl, network) ==
    [baseUrl |-> StripTrailingSlash(baseUrl), network |-> network]

\* `${this.baseUrl}/submit-payment`
SubmitPaymentUrl(client) == client.baseUrl \o "/submit-payment"

\* a variant that prefers the `signature` field
FacilitatorSignature_SignatureFirst(json) ==
    IF Truthy(json.signature) THEN json.signature
    ELSE IF Truthy(json.txSignature) THEN json.txSignature
    ELSE json.txsig

\* json.txSignature || json.signature || json.tx?.signature
FacilitatorSignature(json) ==
    IF Truthy(json.txSignature) THEN json.txSignature
    ELSE IF Truthy(json.signature) THEN json.signature
    ELSE json.txsig

\* JSON bodies a facilitator answers with
Json(a, b, c) == [txSignature |-> a, signature |-> b, txsig |-> c]
JsonPool == {Json("sigA", "sigB", Undefined), Json(Undefined, "sigB", "sigC"),
             Json("", "sigB", Undefined), Json(Undefined, Undefined, "sigC"),
             Json(Undefined, Undefined, Undefined)}

\* what fetch answers: kind "ok" (res.ok, status 2xx, a JSON body), "notok"
\* (another status, with the body text) or "throw" (fetch rejects)
HttpResponse(kind, status, text, json) ==
    [kind |-> kind, status |-> status, text |-> text, json |-> json]
NoJson == Json(Undefined, Undefined, Undefined)
HttpResponses ==
    {HttpResponse("ok", "200", "", json) : json \in JsonPool}
      \cup {HttpResponse("notok", "500", "boom", NoJson),
            HttpResponse("notok", "402", "", NoJson),
            HttpResponse("throw", "", "", NoJson)}

\* one POST on the wire and its answer
Post(url, response) == [call |-> "POST " \o url, answer |-> response]

\* FacilitatorClient.submitPayment after the answer of its POST
submitPayment(response) ==
    IF response.kind = "throw" THEN [ok |-> FALSE, error |-> "fetch failed"]
    ELSE IF response.kind = "notok"
    THEN [ok |-> FALSE,
          error |-> "Facilitator error " \o response.status \o ": " \o response.text]
    ELSE [ok |-> TRUE, txSignature |-> FacilitatorSignature(response.json),
          raw |-> response.json]

(***************************************************************************)
(* X402SDK                                                                 *)
(***************************************************************************)
\* constructor(cfg): flags are "true", "false" or Undefined
NewSDK(network, defaultFacilitator, preferOnChain, defaultPaymentMethod) ==
    [network |-> network, defaultFacilitator |-> defaultFacilitator,
     preferOnChain |-> preferOnChain, defaultPaymentMethod |-> defaultPaymentMethod,
     facilitator |-> IF Truthy(defaultFacilitator)
                     THEN <<FacilitatorClient(defaultFacilitator, network)>>
                     ELSE <<>>]

getFacilitatorUrl(s) == s.defaultFacilitator

\* opts?.method || this.cfg.defaultPaymentMethod || 'auto'
ResolveMethod(s, o) ==
    IF Truthy(o.method) THEN o.method
    ELSE IF Truthy(s.defaultPaymentMethod) THEN s.defaultPaymentMethod
    ELSE "auto"

\* a variant that accepts every configuration
IsValid_Always(errors) == TRUE
\* `isValid: errors.length === 0`
IsValid(errors) == errors = <<>>

\* a variant whose auto mode ignores the preferOnChain setting
UseOnChain_IgnoresPreference(s, o) ==
    LET method == ResolveMethod(s, o) IN
    IF method = "onchain" THEN TRUE
    ELSE IF method = "facilitator" THEN FALSE
    ELSE IF method = "auto" THEN Truthy(o.payerKeypair)
    ELSE FALSE

\* the useOnChain decision of pay()
UseOnChain(s, o) ==
    LET method == ResolveMethod(s, o) IN
    IF method = "onchain" THEN TRUE
    ELSE IF method = "facilitator" THEN FALSE
    ELSE IF method = "auto" THEN s.preferOnChain = "true" /\ Truthy(o.payerKeypair)
    ELSE FALSE

\* `if (!this.facilitator)`
HasFacilitator(s) == s.facilitator # <<>>

(***************************************************************************)
(* token-utils / onchain: building the payment transaction                 *)
(***************************************************************************)
ASSOCIATED_TOKEN_PROGRAM_ID == "ATokenGPvbdGVxr1b2hvZbsiqW5xWH25efTNsLJA8knL"

\* createAssociatedTokenAccountInstruction(payer, associatedToken, owner, mint)
CreateATA(payer, ata, owner, mint) ==
    Ix(ASSOCIATED_TOKEN_PROGRAM_ID, <<payer, ata, owner, mint>>, <<>>)

\* createSOLPaymentTransaction: one transfer of toTokenUnits(amount, 9). The
\* blockhash is fetched twice; b1 and b2 tell whether each fetch succeeds.
\* The result carries the ledger calls made
createSOLPaymentTransaction(payer, config, b1, b2) ==
    LET lamports == toTokenUnits(config.amount, 9)
        fetch1   == Call("getLatestBlockhash", IF b1 THEN "ok" ELSE "throw")
        fetch2   == Call("getLatestBlockhash", IF b2 THEN "ok" ELSE "throw")
    IN
    IF PublicKeyThrows(config.recipient) \/ ~lamports.ok
    THEN [ok |-> FALSE, tx |-> NullTx, calls |-> <<>>]
    ELSE IF ~b1 THEN [ok |-> FALSE, tx |-> NullTx, calls |-> <<fetch1>>]
    ELSE IF ~b2 THEN [ok |-> FALSE, tx |-> NullTx, calls |-> <<fetch1, fetch2>>]
    ELSE [ok |-> TRUE,
          tx |-> TxObj(<<SystemTransfer(payer, config.recipient, lamports.val)>>),
          calls |-> <<fetch1, fetch2>>]

\* what getAccount answers for a token account: "ok" when it exists,
\* "notfound" (TokenAccountNotFoundError) when it does not, and "throw" when
\* the account exists and the lookup itself fails (connection, rate limit)
AccountAnswers == {"ok", "notfound", "throw"}

\* getOrCreateTokenAccount returns an instruction in its catch block: for
\* every error of getAccount
CreationReturned(account) == account # "ok"

\* a variant that returns the instruction only for an account that is not
\* there
CreationReturned_NotFoundOnly(account) == account = "notfound"

\* what getMint answers: <<>> when it throws, else the mint's decimals
MintInfos == {<<>>, <<0>>, <<2>>, <<6>>, <<9>>}

\* `config.decimals || mintInfo.decimals`
DecimalsOrMint(config, mintInfo) ==
    IF config.decimals # <<>> /\ config.decimals[1] # 0
    THEN config.decimals[1] ELSE mintInfo[1]

\* createSPLPaymentTransaction, given what the ledger answers: the mint
\* info, the two blockhash fetches and the lookups of the two token accounts
createSPLPaymentTransaction(payer, config, mintInfo, b1, b2, payerAccount, recipientAccount) ==
    LET amount   == IF mintInfo = <<>> THEN [ok |-> FALSE, val |-> 0]
                    ELSE toTokenUnits(config.amount, DecimalsOrMint(config, mintInfo))
        mint     == config.mintAddress
        getMint  == Call("getMint", IF mintInfo = <<>> THEN "throw" ELSE "ok")
        fetch1   == Call("getLatestBlockhash", IF b1 THEN "ok" ELSE "throw")
        fetch2   == Call("getLatestBlockhash", IF b2 THEN "ok" ELSE "throw")
        payerAcc == Call("getAccount", payerAccount)
        recipAcc == Call("getAccount", recipientAccount)
    IN
    IF ~Truthy(mint) \/ PublicKeyThrows(mint) \/ PublicKeyThrows(config.recipient)
    THEN [ok |-> FALSE, tx |-> NullTx, calls |-> <<>>]
    ELSE IF ~amount.ok
    THEN [ok |-> FALSE, tx |-> NullTx, calls |-> <<getMint>>]
    ELSE IF ~b1 THEN [ok |-> FALSE, tx |-> NullTx, calls |-> <<getMint, fetch1>>]
    ELSE IF ~b2 THEN [ok |-> FALSE, tx |-> NullTx, calls |-> <<getMint, fetch1, fetch2>>]
    ELSE IF config.recipient \in OffCurve
    THEN [ok |-> FALSE, tx |-> NullTx, calls |-> <<getMint, fetch1, fetch2, payerAcc>>]
    ELSE [ok |-> TRUE,
          tx |-> TxObj(
            (IF CreationReturned(payerAccount)
             THEN <<CreateATA(payer, ATA(mint, payer), payer, mint)>> ELSE <<>>)
            \o (IF CreationReturned(recipientAccount) /\ config.createAccountIfNeeded
                THEN <<CreateATA(payer, ATA(mint, config.recipient), config.recipient, mint)>>
                ELSE <<>>)
            \o <<TokenTransfer(ATA(mint, payer), ATA(mint, config.recipient), payer,
                               amount.val)>>),
          calls |-> <<getMint, fetch1, fetch2, payerAcc, recipAcc>>]

\* the mint submitPaymentOnChain pays in: USDC falls back to the canonical mint
OnChainMint(config, network) ==
    IF Truthy(config.mintAddress) THEN config.mintAddress
    ELSE IF config.tokenType = "USDC" THEN getUSDCMint(network)
    ELSE Undefined

(***************************************************************************)
(* X402SDK.pay, step by step                                               *)
(***************************************************************************)
PayOpts(k, m, sf) == [payerKeypair |-> k, method |-> m, simulateFirst |-> sf]

PayCfgPool ==
    {Cfg("SOL", Num(1, 3), "R", Undefined, <<9>>),
     Cfg("USDC", Num(1, 0), "R", "M", <<6>>),
     Cfg("SPL", Num(1, 0), "Rpda", "M", <<>>),
     Cfg("SOL", Num(0, 0), "R", Undefined, <<9>>),
     Cfg("USDC", Num(1, 0), "R", Undefined, <<6>>),
     Cfg(Undefined, NoAmount, "", "bad", <<>>)}

PayOptsPool ==
    {PayOpts(k, m, sf) : k \in {Undefined, "P"},
                         m \in {Undefined, "auto", "onchain", "facilitator"},
                         sf \in {Undefined, "false"}}

SDKPool ==
    {NewSDK(n, f, p, m) : n \in {"solana-devnet", "solana-mainnet"},
                          f \in {Undefined, "https://f/"},
                          p \in {Undefined, "true", "false"},
                          m \in {Undefined, "onchain", "facilitator"}}

FacilitatorUrls == {"", "https://g//"}

NoPayIn == [config |-> Cfg(Undefined, NoAmount, Undefined, Undefined, <<>>),
            opts |-> PayOpts(Undefined, Undefined, Undefined)]

NoOut == [kind |-> "none", error |-> Undefined, txSignature |-> Undefined,
          explorerUrl |-> Undefined, paymentDetails |-> <<>>, raw |-> <<>>]
Thrown(msg) == [kind |-> "error", error |-> msg, txSignature |-> Undefined,
                explorerUrl |-> Undefined, paymentDetails |-> <<>>, raw |-> <<>>]
ExecResponse(signature, url, details, raw) ==
    [kind |-> "response", error |-> Undefined, txSignature |-> signature,
     explorerUrl |-> url, paymentDetails |-> details, raw |-> <<raw>>]

NoFacilitatorMessage ==
    "No facilitator configured. Call setFacilitator(url) or provide defaultFacilitator in SDKConfig."

PayIdle ==
    /\ sdk = NewSDK("solana-devnet", Undefined, Undefined, Undefined)
    /\ payIn = NoPayIn
    /\ payPc = "off"
    /\ payPath = "none"
    /\ payTx = NullTx
    /\ payUrl = Undefined
    /\ payOut = NoOut
    /\ net = <<>>

\* new X402SDK(cfg)
PayInit ==
    /\ sdk \in SDKPool
    /\ payIn = NoPayIn
    /\ payPc = "idle"
    /\ payPath = "none"
    /\ payTx = NullTx
    /\ payUrl = Undefined
    /\ payOut = NoOut
    /\ net = <<>>

\* sdk.setFacilitator(url)
SetFacilitator(url) ==
    /\ payPc # "off"
    /\ sdk' = [sdk EXCEPT !.defaultFacilitator = url,
                          !.facilitator = <<FacilitatorClient(url, sdk.network)>>]
    /\ UNCHANGED <<payIn, payPc, payPath, payTx, payUrl, payOut, net>>

Fail(msg) ==
    /\ payOut' = Thrown(msg)
    /\ payPc' = "done"

\* sdk.pay(config, opts) up to its first await: validation and routing
PayCall(config, o) ==
    /\ payPc = "idle"
    /\ rPc \in {"idle", "off"}
    /\ payIn' = [config |-> config, opts |-> o]
    /\ net' = <<>>
    /\ payTx' = NullTx
    /\ LET errors == validateConfig(config) IN
       IF ~IsValid(errors)
       THEN /\ Fail("Invalid payment configuration: " \o Join(errors))
            /\ payPath' = "none"
       ELSE IF UseOnChain(sdk, o)
       THEN /\ payPath' = "onchain"
            /\ IF ~Truthy(o.payerKeypair)
               THEN Fail("Payer keypair is required for on-chain payments")
               ELSE /\ payPc' = "build"
                    /\ payOut' = NoOut
       ELSE /\ payPath' = "facilitator"
            /\ IF ~HasFacilitator(sdk)
               THEN Fail(NoFacilitatorMessage)
               ELSE IF ~toX402Requirements(config, sdk.network).ok
               THEN Fail("The number NaN cannot be converted to a BigInt")
               ELSE /\ payPc' = "post"
                    /\ payOut' = NoOut
    /\ payUrl' = IF payPc' = "post" THEN SubmitPaymentUrl(sdk.facilitator[1]) ELSE Undefined
    /\ UNCHANGED sdk

\* submitPaymentOnChain: the transaction is built and signed; every answer
\* of the ledger may be an error
PayBuild ==
    /\ payPc = "build"
    /\ \E mintInfo \in {<<>>, <<6>>, <<9>>}, b1, b2 \in BOOLEAN,
          payerAccount, recipientAccount \in AccountAnswers :
         LET config == payIn.config
             payer  == payIn.opts.payerKeypair
             mint   == OnChainMint(config, sdk.network)
             built  == IF config.tokenType = "SOL"
                       THEN createSOLPaymentTransaction(payer, config, b1, b2)
                       ELSE IF mint = Undefined
                       THEN [ok |-> FALSE, tx |-> NullTx, calls |-> <<>>]
                       ELSE createSPLPaymentTransaction(
                                payer, [config EXCEPT !.mintAddress = mint],
                                mintInfo, b1, b2, payerAccount, recipientAccount)
         IN
         /\ net' = net \o built.calls
         /\ IF built.ok
            THEN /\ payTx' = built.tx
                 /\ payPc' = IF payIn.opts.simulateFirst # "false"
                             THEN "simulate" ELSE "submit"
                 /\ UNCHANGED payOut
            ELSE /\ Fail("On-chain payment failed: build")
                 /\ UNCHANGED payTx
    /\ UNCHANGED <<sdk, payIn, payPath, payUrl>>

\* a variant that lets every simulation pass
OnChainSimulationFailed_Never(answer) == FALSE
\* `if (simulation.value.err)`, or the call or the read of .err throwing
OnChainSimulationFailed(answer) == answer # "ok"

\* await connection.simulateTransaction(transaction); `simulation.value.err`
\* throws when the answer has no value
PaySimulate ==
    /\ payPc = "simulate"
    /\ \E answer \in RpcAnswers :
         /\ net' = Append(net, Call("simulateTransaction", answer))
         /\ IF ~OnChainSimulationFailed(answer)
            THEN /\ payPc' = "submit"
                 /\ UNCHANGED payOut
            ELSE Fail("On-chain payment failed: Transaction simulation failed")
    /\ UNCHANGED <<sdk, payIn, payPath, payTx, payUrl>>

\* await connection.sendRawTransaction(transaction.serialize(), ...)
PaySubmit ==
    /\ payPc = "submit"
    /\ \E answer \in {"ok", "throw"} :
         /\ net' = Append(net, Call("sendRawTransaction", answer))
         /\ IF answer = "ok"
            THEN /\ payPc' = "confirm"
                 /\ UNCHANGED payOut
            ELSE Fail("On-chain payment failed: send")
    /\ UNCHANGED <<sdk, payIn, payPath, payTx, payUrl>>

\* await connection.confirmTransaction(signature, 'confirmed'), then the result
PayConfirm ==
    /\ payPc = "confirm"
    /\ \E answer \in RpcAnswers :
         /\ net' = Append(net, Call("confirmTransaction", answer))
         /\ IF answer = "ok"
            THEN LET config == payIn.config
                     mint   == OnChainMint(config, sdk.network)
                 IN
                 /\ payOut' = ExecResponse("sig-onchain",
                        getExplorerUrl("sig-onchain", sdk.network),
                        <<[amount      |-> config.amount,
                           tokenType   |-> config.tokenType,
                           recipient   |-> config.recipient,
                           mintAddress |-> IF config.tokenType = "SOL"
                                           THEN config.mintAddress ELSE mint]>>,
                        [transaction |-> payTx, confirmation |-> answer])
                 /\ payPc' = "done"
            ELSE Fail("On-chain payment failed: Transaction failed on-chain")
    /\ UNCHANGED <<sdk, payIn, payPath, payTx, payUrl>>

\* FacilitatorClient.submitPayment: one POST to <baseUrl>/submit-payment. The
\* client is the one pay() read before its first await
PayPost ==
    /\ payPc = "post"
    /\ \E response \in HttpResponses :
         LET result == submitPayment(response) IN
         /\ net' = Append(net, Post(payUrl, response))
         /\ IF result.ok
            THEN /\ payOut' = ExecResponse(result.txSignature, Undefined, <<>>, result.raw)
                 /\ payPc' = "done"
            ELSE Fail(result.error)
    /\ UNCHANGED <<sdk, payIn, payPath, payTx, payUrl>>

\* the caller has the result; the SDK instance is ready for the next call
PayReturn ==
    /\ payPc = "done"
    /\ payPc' = "idle"
    /\ payIn' = NoPayIn
    /\ payPath' = "none"
    /\ payTx' = NullTx
    /\ payUrl' = Undefined
    /\ payOut' = NoOut
    /\ net' = <<>>
    /\ UNCHANGED sdk

PayNext ==
    \/ \E url \in FacilitatorUrls : SetFacilitator(url) /\ UNCHANGED <<verifyVars, mwVars, builderVars, unitsVars, x402Vars, assembleVars, resourceVars>>
    \/ \E config \in PayCfgPool, o \in PayOptsPool :
          PayCall(config, o) /\ UNCHANGED <<verifyVars, mwVars, builderVars, unitsVars, x402Vars, assembleVars, resourceVars>>
    \/ PayBuild /\ UNCHANGED <<verifyVars, mwVars, builderVars, unitsVars, x402Vars, assembleVars, resourceVars>>
    \/ PaySimulate /\ UNCHANGED <<verifyVars, mwVars, builderVars, unitsVars, x402Vars, assembleVars, resourceVars>>
    \/ PaySubmit /\ UNCHANGED <<verifyVars, mwVars, builderVars, unitsVars, x402Vars, assembleVars, resourceVars>>
    \/ PayConfirm /\ UNCHANGED <<verifyVars, mwVars, builderVars, unitsVars, x402Vars, assembleVars, resourceVars>>
    \/ PayPost /\ UNCHANGED <<verifyVars, mwVars, builderVars, unitsVars, x402Vars, assembleVars, resourceVars>>
    \/ PayReturn /\ UNCHANGED <<verifyVars, mwVars, builderVars, unitsVars, x402Vars, assembleVars, resourceVars>>

(***************************************************************************)
(* X402SDK.payForResource and submitOnChainDirect, step by step            *)
(***************************************************************************)
\* X402PaymentRequirements as payForResource reads them
PaymentReq(amount, recipient) ==
    [amount |-> amount, payment_payload |-> [recipient |-> recipient]]

NoPaymentReq == PaymentReq(NoAmount, Undefined)

\* amounts "1", "0" and a string that is no number; recipients
PaymentReqPool ==
    {PaymentReq(a, r) : a \in {Num(1, 0), Num(0, 0), NaN}, r \in {"R", "R2"}}

ResourceOptsPool == {[payerKeypair |-> k] : k \in {Undefined, "P"}}

\* the options payForResource hands to submitOnChainDirect: payerKeypair and
\* network, and no toPubkey
DirectOpts(o, network) ==
    [payerKeypair |-> o.payerKeypair, network |-> network, toPubkey |-> Undefined]

\* opts.toPubkey ? new PublicKey(opts.toPubkey) : payer.publicKey
DirectTo(o) == IF Truthy(o.toPubkey) THEN o.toPubkey ELSE o.payerKeypair

\* Math.max(1, Math.floor(Number(paymentReq.amount) * 1e9 || 1))
DirectLamports(paymentReq) ==
    IF paymentReq.amount.kind # "num" \/ paymentReq.amount.digits = 0 THEN 1
    ELSE IF ScaleFloor(paymentReq.amount, 9) < 1 THEN 1
    ELSE ScaleFloor(paymentReq.amount, 9)

\* opts.network === 'solana-mainnet' ? 'mainnet-beta' : 'devnet'
DirectCluster(network) == IF network = "solana-mainnet" THEN "mainnet-beta" ELSE "devnet"

\* conn.sendTransaction(tx, [payer]) with the one transfer of the transaction
SendTransaction(from, to, lamports, answer) ==
    [call |-> "sendTransaction", answer |-> answer,
     tx |-> TxObj(<<SystemTransfer(from, to, lamports)>>)]

ResourceIdle ==
    /\ rReq = NoPaymentReq
    /\ rOpts = [payerKeypair |-> Undefined]
    /\ rPc = "off"
    /\ rPath = "none"
    /\ rUrl = Undefined
    /\ rOut = NoOut
    /\ rNet = <<>>

ResourceInit ==
    /\ rReq = NoPaymentReq
    /\ rOpts = [payerKeypair |-> Undefined]
    /\ rPc = "idle"
    /\ rPath = "none"
    /\ rUrl = Undefined
    /\ rOut = NoOut
    /\ rNet = <<>>

\* sdk.payForResource(paymentReq, opts) up to its first await
PayForResourceCall(paymentReq, o) ==
    /\ rPc = "idle"
    /\ payPc = "idle"
    /\ rReq' = paymentReq
    /\ rOpts' = o
    /\ rNet' = <<>>
    /\ IF sdk.preferOnChain = "true" /\ Truthy(o.payerKeypair)
       THEN /\ rPath' = "onchain"
            /\ rPc' = "send"
            /\ rUrl' = Undefined
            /\ rOut' = NoOut
       ELSE /\ rPath' = "facilitator"
            /\ IF ~HasFacilitator(sdk)
               THEN /\ rOut' = Thrown(NoFacilitatorMessage)
                    /\ rPc' = "done"
                    /\ rUrl' = Undefined
               ELSE /\ rOut' = NoOut
                    /\ rPc' = "post"
                    /\ rUrl' = SubmitPaymentUrl(sdk.facilitator[1])

\* submitOnChainDirect: await conn.sendTransaction(tx, [payer])
DirectSend ==
    /\ rPc = "send"
    /\ \E answer \in {"ok", "throw"} :
         LET o == DirectOpts(rOpts, sdk.network) IN
         /\ rNet' = Append(rNet, SendTransaction(o.payerKeypair, DirectTo(o),
                                                 DirectLamports(rReq), answer))
         /\ IF answer = "ok"
            THEN /\ rPc' = "confirm"
                 /\ UNCHANGED rOut
            ELSE /\ rOut' = Thrown("send")
                 /\ rPc' = "done"
    /\ UNCHANGED <<rReq, rOpts, rPath, rUrl>>

\* await conn.confirmTransaction(sig, 'confirmed'): the answer is not read
DirectConfirm ==
    /\ rPc = "confirm"
    /\ \E answer \in RpcAnswers :
         LET o == DirectOpts(rOpts, sdk.network) IN
         /\ rNet' = Append(rNet, Call("confirmTransaction", answer))
         /\ rPc' = "done"
         /\ IF answer # "throw"
            THEN rOut' = ExecResponse("sig-direct",
                     "https://explorer.solana.com/tx/" \o "sig-direct" \o "?cluster="
                        \o DirectCluster(o.network),
                     <<[amount    |-> DirectLamports(rReq),
                        tokenType |-> "SOL",
                        recipient |-> DirectTo(o)]>>,
                     [lamports |-> DirectLamports(rReq)])
            ELSE rOut' = Thrown("confirm")
    /\ UNCHANGED <<rReq, rOpts, rPath, rUrl>>

\* await this.facilitator.submitPayment(paymentReq), with the client that
\* payForResource read before its await
ResourcePost ==
    /\ rPc = "post"
    /\ \E response \in HttpResponses :
         LET result == submitPayment(response) IN
         /\ rNet' = Append(rNet, Post(rUrl, response))
         /\ rOut' = IF result.ok
                    THEN ExecResponse(result.txSignature, Undefined, <<>>, result.raw)
                    ELSE Thrown(result.error)
         /\ rPc' = "done"
    /\ UNCHANGED <<rReq, rOpts, rPath, rUrl>>

\* the caller has the result
ResourceReturn ==
    /\ rPc = "done"
    /\ rPc' = "idle"
    /\ rReq' = NoPaymentReq
    /\ rOpts' = [payerKeypair |-> Undefined]
    /\ rPath' = "none"
    /\ rUrl' = Undefined
    /\ rOut' = NoOut
    /\ rNet' = <<>>

ResourceNext ==
    \/ \E paymentReq \in PaymentReqPool, o \in ResourceOptsPool :
          PayForResourceCall(paymentReq, o)
            /\ UNCHANGED <<verifyVars, mwVars, payVars, builderVars, unitsVars, x402Vars, assembleVars>>
    \/ DirectSend
         /\ UNCHANGED <<verifyVars, mwVars, payVars, builderVars, unitsVars, x402Vars, assembleVars>>
    \/ DirectConfirm
         /\ UNCHANGED <<verifyVars, mwVars, payVars, builderVars, unitsVars, x402Vars, assembleVars>>
    \/ ResourcePost
         /\ UNCHANGED <<verifyVars, mwVars, payVars, builderVars, unitsVars, x402Vars, assembleVars>>
    \/ ResourceReturn
         /\ UNCHANGED <<verifyVars, mwVars, payVars, builderVars, unitsVars, x402Vars, assembleVars>>

\* the calls made on one SDK instance
SdkNext == PayNext \/ ResourceNext

(***************************************************************************)
(* PaymentBuilder                                                          *)
(***************************************************************************)
\* `private config: Partial<PaymentConfig> = {}`: every field absent
EmptyConfig ==
    [tokenType |-> Undefined, amount |-> NoAmount, recipient |-> Undefined,
     mintAddress |-> Undefined, decimals |-> <<>>, createAccountIfNeeded |-> <<>>]

\* build(): the message of the error it throws, Undefined when it returns
BuildError(config) ==
    IF ~Truthy(config.tokenType) THEN "Token type is required"
    ELSE IF config.amount.kind = "undefined" THEN "Amount is required"
    ELSE IF ~Truthy(config.recipient) THEN "Recipient is required"
    ELSE IF config.tokenType # "SOL" /\ ~Truthy(config.mintAddress)
    THEN "Mint address is required for SPL token payments"
    ELSE Undefined

NotBuilt == [kind |-> "none", errors |-> <<>>]

BuilderIdle ==
    /\ bConfig = EmptyConfig
    /\ bRet = [kind |-> "off", errors |-> <<>>]
    /\ bSnap = EmptyConfig

\* new PaymentBuilder()
BuilderInit ==
    /\ bConfig = EmptyConfig
    /\ bRet = NotBuilt
    /\ bSnap = EmptyConfig

BuilderOn == bRet.kind # "off"

\* the setters assign one field of this.config
setTokenType(tokenType) ==
    /\ BuilderOn
    /\ bConfig' = [bConfig EXCEPT !.tokenType = tokenType]
    /\ UNCHANGED <<bRet, bSnap>>

setAmount(amount) ==
    /\ BuilderOn
    /\ bConfig' = [bConfig EXCEPT !.amount = amount]
    /\ UNCHANGED <<bRet, bSnap>>

setRecipient(recipient) ==
    /\ BuilderOn
    /\ bConfig' = [bConfig EXCEPT !.recipient = recipient]
    /\ UNCHANGED <<bRet, bSnap>>

setMintAddress(mintAddress) ==
    /\ BuilderOn
    /\ bConfig' = [bConfig EXCEPT !.mintAddress = mintAddress]
    /\ UNCHANGED <<bRet, bSnap>>

setDecimals(decimals) ==
    /\ BuilderOn
    /\ bConfig' = [bConfig EXCEPT !.decimals = <<decimals>>]
    /\ UNCHANGED <<bRet, bSnap>>

createAccountIfNeeded(create) ==
    /\ BuilderOn
    /\ bConfig' = [bConfig EXCEPT !.createAccountIfNeeded = <<create>>]
    /\ UNCHANGED <<bRet, bSnap>>

\* build(): throws the first rule that fails, else returns this.config itself
build ==
    /\ BuilderOn
    /\ bSnap' = bConfig
    /\ bRet' = IF BuildError(bConfig) # Undefined
               THEN [kind |-> "error", errors |-> <<BuildError(bConfig)>>]
               ELSE [kind |-> "config", errors |-> <<>>]
    /\ UNCHANGED bConfig

\* the PaymentConfig the last build() returned, as its holder reads it now:
\* the returned reference is the builder's own config object
BuiltConfig == bConfig

BuilderNext ==
    \/ \E t \in TokenTypes : setTokenType(t) /\ UNCHANGED <<verifyVars, mwVars, payVars, unitsVars, x402Vars, assembleVars, resourceVars>>
    \/ \E a \in {Num(1, 0), Num(2, 0)} : setAmount(a) /\ UNCHANGED <<verifyVars, mwVars, payVars, unitsVars, x402Vars, assembleVars, resourceVars>>
    \/ setRecipient("R") /\ UNCHANGED <<verifyVars, mwVars, payVars, unitsVars, x402Vars, assembleVars, resourceVars>>
    \/ setMintAddress("M") /\ UNCHANGED <<verifyVars, mwVars, payVars, unitsVars, x402Vars, assembleVars, resourceVars>>
    \/ setDecimals(6) /\ UNCHANGED <<verifyVars, mwVars, payVars, unitsVars, x402Vars, assembleVars, resourceVars>>
    \/ \E c \in BOOLEAN : createAccountIfNeeded(c) /\ UNCHANGED <<verifyVars, mwVars, payVars, unitsVars, x402Vars, assembleVars, resourceVars>>
    \/ build /\ UNCHANGED <<verifyVars, mwVars, payVars, unitsVars, x402Vars, assembleVars, resourceVars>>

(***************************************************************************)
(* token-utils: one amount converted to base units and back                *)
(***************************************************************************)
UnitsIdle ==
    /\ uAmount = NoAmount
    /\ uDecimals = 0
    /\ uUnits = <<>>
    /\ uBack = Zero
    /\ uPc = "off"

\* a non-negative decimal amount and the decimals of a token
UnitsInit ==
    /\ uAmount \in {Num(d, s) : d \in 0..MaxAmountDigits, s \in 0..MaxScale}
    /\ uDecimals \in 0..MaxDecimals
    /\ uUnits = <<>>
    /\ uBack = Zero
    /\ uPc = "idle"

CallToTokenUnits ==
    /\ uPc = "idle"
    /\ uUnits' = toTokenUnitsBigInt(uAmount, uDecimals)
    /\ uPc' = "units"
    /\ UNCHANGED <<uAmount, uDecimals, uBack>>

CallFromTokenUnits ==
    /\ uPc = "units"
    /\ uBack' = fromTokenUnits(uUnits, uDecimals)
    /\ uPc' = "back"
    /\ UNCHANGED <<uAmount, uDecimals, uUnits>>

UnitsNext ==
    \/ CallToTokenUnits /\ UNCHANGED <<verifyVars, mwVars, payVars, builderVars, x402Vars, assembleVars, resourceVars>>
    \/ CallFromTokenUnits /\ UNCHANGED <<verifyVars, mwVars, payVars, builderVars, x402Vars, assembleVars, resourceVars>>

(***************************************************************************)
(* PaymentUtils: one configuration to x402 requirements and back           *)
(***************************************************************************)
NoRequirements == toX402Requirements(Cfg("SOL", Num(0, 0), Undefined, Undefined, <<>>), Undefined)

X402Idle ==
    /\ xCfg = Cfg("SOL", Num(0, 0), Undefined, Undefined, <<>>)
    /\ xNet = Undefined
    /\ xReq = NoRequirements
    /\ xBack = fromX402Requirements(NoRequirements)
    /\ xPc = "off"

\* valid configurations, with and without decimals and mint
X402CfgPool ==
    {[Cfg(t, a, r, m, d) EXCEPT !.createAccountIfNeeded = c] :
        t \in TokenTypes, a \in {Num(1, 3), Num(41, 1), Num(5, 1), Num(2, 0)},
        r \in {"R", "R2"}, m \in {Undefined, "M"}, d \in {<<>>, <<0>>, <<6>>, <<9>>},
        c \in BOOLEAN}

X402Init ==
    /\ xCfg \in X402CfgPool
    /\ xNet \in {"solana-devnet", "solana-mainnet"}
    /\ xReq = NoRequirements
    /\ xBack = fromX402Requirements(NoRequirements)
    /\ xPc = "idle"

CallToX402Requirements ==
    /\ xPc = "idle"
    /\ xReq' = toX402Requirements(xCfg, xNet)
    /\ xPc' = "requirements"
    /\ UNCHANGED <<xCfg, xNet, xBack>>

CallFromX402Requirements ==
    /\ xPc = "requirements"
    /\ xBack' = fromX402Requirements(xReq)
    /\ xPc' = "config"
    /\ UNCHANGED <<xCfg, xNet, xReq>>

X402Next ==
    \/ CallToX402Requirements
         /\ UNCHANGED <<verifyVars, mwVars, payVars, builderVars, unitsVars, assembleVars, resourceVars>>
    \/ CallFromX402Requirements
         /\ UNCHANGED <<verifyVars, mwVars, payVars, builderVars, unitsVars, assembleVars, resourceVars>>

(***************************************************************************)
(* A transaction assembled for a configuration, then verified against it   *)
(***************************************************************************)
\* what the ledger answers while the transaction is assembled
Ledger(mintInfo, b1, b2, payerAccount, recipientAccount) ==
    [mintInfo |-> mintInfo, b1 |-> b1, b2 |-> b2,
     payerAccount |-> payerAccount, recipientAccount |-> recipientAccount]

NotAssembled == [ok |-> FALSE, tx |-> NullTx, calls |-> <<>>]

AssembleIdle ==
    /\ aCfg = Cfg("SOL", Num(0, 0), Undefined, Undefined, <<>>)
    /\ aLedger = Ledger(<<>>, FALSE, FALSE, "throw", "throw")
    /\ aBuilt = NotAssembled
    /\ aRes = NoResult
    /\ aPc = "off"

\* configurations with every token type, with and without decimals; the
\* non-SOL ones name their mint
AssembleCfgPool ==
    {[Cfg(t, a, r, IF t = "SOL" THEN Undefined ELSE "M", d)
        EXCEPT !.createAccountIfNeeded = c] :
        t \in TokenTypes, a \in {Num(1, 3), Num(15, 1)}, r \in {"R", "Rpda"},
        d \in {<<>>, <<0>>, <<2>>, <<6>>, <<9>>}, c \in BOOLEAN}

AssembleInit ==
    /\ aCfg \in AssembleCfgPool
    /\ aLedger \in {Ledger(m, b1, b2, p, r) :
                      m \in MintInfos, b1 \in BOOLEAN, b2 \in BOOLEAN,
                      p \in AccountAnswers, r \in AccountAnswers}
    /\ aBuilt = NotAssembled
    /\ aRes = NoResult
    /\ aPc = "ready"

\* await createSOLPaymentTransaction(connection, payer, config), or
\* createSPLPaymentTransaction for the other token types
CallCreatePaymentTransaction ==
    /\ aPc = "ready"
    /\ aBuilt' = IF aCfg.tokenType = "SOL"
                 THEN createSOLPaymentTransaction("P", aCfg, aLedger.b1, aLedger.b2)
                 ELSE createSPLPaymentTransaction(
                          "P", aCfg, aLedger.mintInfo, aLedger.b1, aLedger.b2,
                          aLedger.payerAccount, aLedger.recipientAccount)
    /\ aPc' = "assembled"
    /\ UNCHANGED <<aCfg, aLedger, aRes>>

\* await PaymentVerifier.verifyPaymentInstructions(transaction, config) on the
\* transaction that was assembled
CallVerifyAssembled ==
    /\ aPc = "assembled"
    /\ aBuilt.ok
    /\ aRes' = verifyPaymentInstructions(aBuilt.tx, aCfg)
    /\ aPc' = "verified"
    /\ UNCHANGED <<aCfg, aLedger, aBuilt>>

AssembleNext ==
    \/ CallCreatePaymentTransaction
         /\ UNCHANGED <<verifyVars, mwVars, payVars, builderVars, unitsVars, x402Vars, resourceVars>>
    \/ CallVerifyAssembled
         /\ UNCHANGED <<verifyVars, mwVars, payVars, builderVars, unitsVars, x402Vars, resourceVars>>

(***************************************************************************)
(* Specifications                                                          *)
(***************************************************************************)
\* the payment middleware serving its requests
Init == MwInit /\ VerifyIdle /\ PayIdle /\ BuilderIdle /\ UnitsIdle /\ X402Idle /\ AssembleIdle /\ ResourceIdle
Next == MwNext
Spec == Init /\ [][Next]_vars

\* one call of the verifier on an arbitrary transaction and expectation
InitVerify == VerifyInit /\ MwIdle /\ PayIdle /\ BuilderIdle /\ UnitsIdle /\ X402Idle /\ AssembleIdle /\ ResourceIdle
SpecVerify == InitVerify /\ [][VerifyNext]_vars

\* one SDK instance: setFacilitator, pay and payForResource calls, one call
\* at a time
InitPay == PayInit /\ MwIdle /\ VerifyIdle /\ BuilderIdle /\ UnitsIdle /\ X402Idle /\ AssembleIdle /\ ResourceInit
SpecPay == InitPay /\ [][SdkNext]_vars

\* one PaymentBuilder: setter calls and build() calls in any order
InitBuilder == BuilderInit /\ MwIdle /\ VerifyIdle /\ PayIdle /\ UnitsIdle /\ X402Idle /\ AssembleIdle /\ ResourceIdle
SpecBuilder == InitBuilder /\ [][BuilderNext]_vars

\* one amount taken through toTokenUnits and fromTokenUnits
InitUnits == UnitsInit /\ MwIdle /\ VerifyIdle /\ PayIdle /\ BuilderIdle /\ X402Idle /\ AssembleIdle /\ ResourceIdle
SpecUnits == InitUnits /\ [][UnitsNext]_vars

\* one configuration taken through toX402Requirements and fromX402Requirements
InitX402 == X402Init /\ MwIdle /\ VerifyIdle /\ PayIdle /\ BuilderIdle /\ UnitsIdle /\ AssembleIdle /\ ResourceIdle
SpecX402 == InitX402 /\ [][X402Next]_vars

\* one configuration assembled into a transaction and the transaction verified
InitAssemble == AssembleInit /\ MwIdle /\ VerifyIdle /\ PayIdle /\ BuilderIdle /\ UnitsIdle /\ X402Idle /\ ResourceIdle
SpecAssemble == InitAssemble /\ [][AssembleNext]_vars

(***************************************************************************)
(* Properties of the middleware (Spec)                                     *)
(***************************************************************************)
Submitted(r) == \E i \in DOMAIN ledger[r] : ledger[r][i].call = "sendRawTransaction"
LedgerCalled(r) == ledger[r] # <<>>
VerifierInvoked(r) == verif[r] # NoResult

\* C1: the ledger submit call of a request happens only after
\* verifyPaymentInstructions returned isValid = true for the request's own
\* transaction against the expected configuration, and directly after a
\* simulateTransaction call that reported no error; a transaction that fails
\* verification or simulation is never submitted.
C1_SubmitOnlyAfterVerifyAndSimulate ==
    \A r \in Requests :
      \A i \in DOMAIN ledger[r] :
        ledger[r][i].call = "sendRawTransaction" =>
          LET d       == DecodeHeader(req[r])
              decoded == TransactionFrom(d.serialized)
          IN /\ d.next = "proceed"
             /\ decoded.ok
             /\ verif[r] = verifyPaymentInstructions(decoded.tx, ExpectedConfig(opts))
             /\ verif[r].outcome = "resolved"
             /\ verif[r].isValid
             /\ i > 1
             /\ ledger[r][i - 1].call = "simulateTransaction"
             /\ ledger[r][i - 1].answer \in {"ok", "novalue"}

\* a verified and simulated transaction has been submitted
C1_Witness ==
    \E r \in Requests :
      /\ Len(ledger[r]) = 2
      /\ ledger[r][2] = Call("sendRawTransaction", "ok")
      /\ verif[r].isValid

\* every step of the paid path succeeded for request r
AllSucceeded(r) ==
    LET d       == DecodeHeader(req[r])
        decoded == TransactionFrom(d.serialized)
    IN /\ d.next = "proceed"
       /\ decoded.ok
       /\ verifyPaymentInstructions(decoded.tx, ExpectedConfig(opts)).isValid
       /\ Len(ledger[r]) = 3
       /\ ledger[r][1].call = "simulateTransaction"
       /\ ledger[r][1].answer \in {"ok", "novalue"}
       /\ ledger[r][2] = Call("sendRawTransaction", "ok")
       /\ ledger[r][3].call = "confirmTransaction"
       /\ ledger[r][3].answer \in {"ok", "novalue"}

\* C2: a request that carries an X-Payment header is answered 200 with
\* {message: "Payment verified", paymentDetails: {signature, explorerUrl}} if
\* and only if header decoding, instruction verification, simulation,
\* submission and confirmation all succeeded; otherwise it is answered 402
\* with an error string.
C2_OkIffAllSucceeded ==
    \A r \in Requests :
      (pc[r] = "done" /\ req[r].kind # "none") =>
        IF AllSucceeded(r)
        THEN /\ resp[r].status = 200
             /\ resp[r].message = "Payment verified"
             /\ resp[r].error = Undefined
             /\ Len(resp[r].paymentDetails) = 1
             /\ resp[r].paymentDetails[1].signature = sig[r]
             /\ sig[r] # Undefined
             /\ resp[r].paymentDetails[1].explorerUrl # Undefined
        ELSE /\ resp[r].status = 402
             /\ resp[r].error # Undefined
             /\ resp[r].paymentDetails = <<>>

\* a request was answered 200 while the other one was rejected after its
\* confirmation failed
C2_Witness ==
    \E r, q \in Requests :
      /\ pc[r] = "done" /\ resp[r].status = 200
      /\ pc[q] = "done" /\ resp[q].status = 402
      /\ Len(ledger[q]) = 3 /\ ledger[q][3] = Call("confirmTransaction", "err")

\* the header of r cannot be decoded, or its envelope has no
\* payload.serializedTransaction
NoSerializedTransaction(r) ==
    \/ req[r].kind \in {"garbage", "jsonnull"}
    \/ req[r].kind = "json" /\ ~FieldTruthy(req[r].serializedTransaction)

\* C3 as stated: a request whose header cannot be decoded, or whose envelope
\* has no payload.serializedTransaction, is rejected with 402 without the
\* verifier being invoked and without any ledger call.
C3_AsStated ==
    \A r \in Requests :
      NoSerializedTransaction(r) =>
        /\ ~VerifierInvoked(r)
        /\ ~LedgerCalled(r)
        /\ pc[r] = "done" => resp[r].status = 402

\* C3 (amended): a request whose header cannot be decoded, or whose envelope
\* has neither a payload.serializedTransaction nor a payload.serialized value,
\* is rejected with 402 and an error, without the verifier being invoked and
\* without any ledger call.
C3_NoTransactionRejected ==
    \A r \in Requests :
      (NoSerializedTransaction(r) /\ (req[r].kind = "json" => ~FieldTruthy(req[r].serialized))) =>
        /\ pc[r] = "done"
        /\ resp[r].status = 402
        /\ resp[r].error # Undefined
        /\ ~VerifierInvoked(r)
        /\ ~LedgerCalled(r)

\* an envelope without either field and a header that is no JSON were rejected
C3_Witness ==
    \E r, q \in Requests :
      /\ req[r] = Header("json", UndefinedField, UndefinedField)
      /\ resp[r].status = 402
      /\ req[q].kind = "garbage"
      /\ resp[q].status = 402

\* C4: a request without an X-Payment header ends with the 402 challenge
\* {error: "Payment Required", payment: {recipient, amount, cluster,
\* tokenType, mintAddress}}; its fields are those of the middleware's
\* configuration, the same for every such request whatever else is in
\* flight, and no verification and no ledger call is made for it.
C4_NoHeaderIsChallenged ==
    \A r \in Requests :
      (pc[r] # "idle" /\ req[r].kind = "none") =>
        /\ pc[r] = "done"
        /\ resp[r].status = 402
        /\ resp[r].error = "Payment Required"
        /\ Len(resp[r].payment) = 1
        /\ resp[r].payment[1].recipient = opts.recipient
        /\ resp[r].payment[1].tokenType = opts.tokenType
        /\ resp[r].payment[1].mintAddress = opts.mintAddress
        /\ resp[r].payment[1].cluster =
              (IF Truthy(opts.network) /\ IncludesMainnet(opts.network)
               THEN "mainnet" ELSE "devnet")
        /\ ~VerifierInvoked(r)
        /\ ~LedgerCalled(r)
        /\ \A q \in Requests :
             (pc[q] # "idle" /\ req[q].kind = "none") => resp[q] = resp[r]

\* a request was challenged while the other one is about to submit a payment,
\* under a configuration that names a mint
C4_Witness ==
    \E r, q \in Requests :
      /\ req[r].kind = "none" /\ pc[r] = "done" /\ resp[r].status = 402
      /\ pc[q] = "submit"
      /\ opts.mintAddress = "M"

\* C5: the amount of the challenge is the price in base units, price * 10^9
\* for SOL and price * 10^6 otherwise, and the recipient is the configured
\* one (price 0.001 in SOL: amount 1000000).
C5_ChallengeAmountInBaseUnits ==
    \A r \in Requests :
      (pc[r] = "done" /\ req[r].kind = "none") =>
        /\ resp[r].payment[1].recipient = opts.recipient
        /\ resp[r].payment[1].amount =
              opts.price.digits * Pow10((IF opts.tokenType = "SOL" THEN 9 ELSE 6)
                                        - opts.price.scale)

\* C16: after a request's payment has been verified and settled, control
\* passes to the route handler registered after the middleware: next() has
\* been called, without an error, when the handler is done.
C16_SettledRequestIsReleased ==
    \A r \in Requests :
      (pc[r] = "done" /\ AllSucceeded(r)) => nextCalls[r] = <<Undefined>>

(***************************************************************************)
(* Properties of concurrent requests to one middleware (Spec)              *)
(***************************************************************************)
\* the answer the ledger gave to a request's call of that name, "none" when
\* the request made no such call
AnswerTo(log, name) ==
    IF \E i \in 1..Len(log) : log[i].call = name
    THEN log[CHOOSE i \in 1..Len(log) : log[i].call = name].answer
    ELSE "none"

\* the response after the verification passed, from the ledger's answers
ResponseAfterVerification(o, r, simulated, sent, confirmed) ==
    IF simulated = "throw" THEN Reject402("simulateTransaction failed")
    ELSE IF simulated = "err" THEN Reject402("Simulation failed: err")
    ELSE IF sent = "throw" THEN Reject402("sendRawTransaction failed")
    ELSE IF confirmed = "throw" THEN Reject402("confirmTransaction failed")
    ELSE IF confirmed = "err" THEN Reject402("Transaction failed: err")
    ELSE Verified200("sig-" \o r, ServerExplorerUrl("sig-" \o r, Network(o)))

\* the response of a decoded transaction, from the expectation built from
\* the options
ResponseToTransaction(o, r, tx, log) ==
    IF ~verifyPaymentInstructions(tx, ExpectedConfig(o)).isValid
    THEN Reject402(verifyPaymentInstructions(tx, ExpectedConfig(o)).error)
    ELSE ResponseAfterVerification(o, r, AnswerTo(log, "simulateTransaction"),
                                   AnswerTo(log, "sendRawTransaction"),
                                   AnswerTo(log, "confirmTransaction"))

\* the response of request r handled alone: a function of the middleware's
\* options, the request's own header and the ledger's answers to its own calls
ResponseAlone(o, r, h, log) ==
    IF DecodeHeader(h).next = "challenge" THEN Challenge402(o)
    ELSE IF DecodeHeader(h).next = "reject" THEN Reject402(DecodeHeader(h).error)
    ELSE IF ~TransactionFrom(DecodeHeader(h).serialized).ok
    THEN Reject402("invalid transaction bytes")
    ELSE ResponseToTransaction(o, r, TransactionFrom(DecodeHeader(h).serialized).tx, log)

\* C25: concurrent requests to one middleware do not interact. Under every
\* interleaving of the two requests' steps, a finished request's response is
\* the one it gets when handled alone (a function of the middleware's fixed
\* options, its own header and the ledger's answers to its own calls), and a
\* request that has not finished has no response written for it.
C25_RequestsDoNotInteract ==
    \A r \in Requests :
      /\ pc[r] = "done" => resp[r] = ResponseAlone(opts, r, req[r], ledger[r])
      /\ pc[r] # "done" => resp[r] = NoResponse

\* both requests have gone through the ledger and ended differently
C25_Witness ==
    /\ pc["r1"] = "done" /\ resp["r1"].status = 200
    /\ pc["r2"] = "done" /\ resp["r2"].status = 402
    /\ Len(ledger["r2"]) >= 1
    /\ req["r1"] # req["r2"]

\* the configuration never changes once the middleware is created
C25_OptionsAreFixed == [][opts' = opts]_vars

(***************************************************************************)
(* Properties of the cluster a network label selects (Spec)                *)
(***************************************************************************)
\* the middleware's connection goes to mainnet
ConnectsToMainnet == getConnection(Network(opts)) = "mainnet-beta"

\* the explorer link of a signature on the cluster the connection goes to
ExplorerUrlOfConnection(signature) ==
    "https://explorer.solana.com/tx/" \o signature \o "?cluster="
        \o getConnection(Network(opts))

\* C29: the cluster selection is consistent for every network label: the
\* connection (getConnection), the default USDC mint (getUSDCMint), the
\* cluster of the explorer link and the cluster label of the challenge all
\* resolve to mainnet together or to devnet together.
C29_ClustersAgree ==
    \A r \in Requests :
      pc[r] = "done" =>
        /\ resp[r].status = 200 =>
             resp[r].paymentDetails[1].explorerUrl = ExplorerUrlOfConnection(sig[r])
        /\ resp[r].payment # <<>> =>
             (resp[r].payment[1].cluster = "mainnet" <=> ConnectsToMainnet)
        /\ (opts.tokenType = "USDC" /\ ~Truthy(opts.mintAddress)) =>
             (ExpectedConfig(opts).mintAddress = USDC_MAINNET_MINT <=> ConnectsToMainnet)

\* the same for the two labels the Network type names, and for no label
C29_ClustersAgreeOnNamedLabels ==
    Network(opts) \in {"solana-devnet", "solana-mainnet"} => C29_ClustersAgree

\* a request was challenged by a middleware whose label is 'mainnet-beta'
C29_ChallengedOnMainnetBeta ==
    /\ opts.network = "mainnet-beta"
    /\ \E r \in Requests : pc[r] = "done" /\ resp[r].payment # <<>>

(***************************************************************************)
(* Properties of the verifier (SpecVerify)                                 *)
(***************************************************************************)
\* the decimals of a configuration: its own when set, else 9 for SOL and 6
\* for the other token types
DecimalsOf(config) ==
    IF config.decimals # <<>> THEN config.decimals[1]
    ELSE IF config.tokenType = "SOL" THEN 9 ELSE 6

Called == vPc \in {"verifyPaymentInstructions", "verifyPayment"}

\* a system-program transfer: 12 bytes of data whose 4-byte little-endian tag
\* is 2, and at least the two accounts [from, to]
IsSystemTransfer(ix) ==
    /\ ix.kind = "ix"
    /\ ix.programId = SYSTEM_PROGRAM
    /\ Len(ix.data) = 12
    /\ LEValue(SubSeq(ix.data, 1, 4)) = 2
    /\ Len(ix.keys) >= 2

\* C6: for a SOL expectation, verifyPaymentInstructions returns isValid =
\* true if and only if some instruction is a system-program transfer (tag 2,
\* data length 12) to the expected recipient of at least the expected
\* base-unit amount; when none is, the result is isValid = false with the
\* error "No valid SOL transfer instruction found".
C6_SolValidIffTransfer ==
    (/\ vPc = "verifyPaymentInstructions"
     /\ vTx.kind = "tx"
     /\ vCfg.tokenType = "SOL"
     /\ vCfg.recipient \in {"R", "R2"}
     /\ vCfg.amount.kind = "num") =>
       LET expected == toTokenUnits(vCfg.amount, DecimalsOrDefault(vCfg)).val
           matches  == \E i \in DOMAIN vTx.instructions :
                          LET ix == vTx.instructions[i] IN
                          /\ IsSystemTransfer(ix)
                          /\ ix.keys[2] = vCfg.recipient
                          /\ LEValue(SubSeq(ix.data, 5, 12)) >= expected
       IN /\ vRes.isValid <=> matches
          /\ ~matches => /\ ~vRes.isValid
                         /\ vRes.error = "No valid SOL transfer instruction found"

\* the instructions of the call that verifySOLTransferInstruction accepted:
\* the scan of a SOL expectation stops at the first one
AcceptedAsNative(i) ==
    LET expected == toTokenUnits(vCfg.amount, DecimalsOrDefault(vCfg)).val
        Accepts(k) == verifySOLTransferInstruction(vTx.instructions[k],
                                                   vCfg.recipient, expected)
    IN /\ Called
       /\ vTx.kind = "tx"
       /\ vCfg.tokenType = "SOL"
       /\ vCfg.amount.kind = "num"
       /\ vCfg.recipient \in {"R", "R2"}
       /\ i \in DOMAIN vTx.instructions
       /\ Accepts(i)
       /\ \A k \in 1..(i - 1) : ~Accepts(k)

\* C20: an instruction is accepted as a native transfer only when its data
\* is exactly 12 bytes long and its first 4 bytes, read as a little-endian
\* unsigned integer, equal 2; a first byte of 2 with a non-zero byte among
\* the next three is not a match.
C20_NativeTagIsFourBytes ==
    \A i \in 1..MaxInstr :
      AcceptedAsNative(i) =>
        /\ Len(vTx.instructions[i].data) = 12
        /\ LEValue(SubSeq(vTx.instructions[i].data, 1, 4)) = 2

\* the same with the tag read from the first byte alone, as the code reads it
C20_NativeTagFirstByte ==
    \A i \in 1..MaxInstr :
      AcceptedAsNative(i) =>
        /\ Len(vTx.instructions[i].data) = 12
        /\ vTx.instructions[i].data[1] = 2

\* C7: with a non-SOL expectation that has no mintAddress,
\* verifyPaymentInstructions returns isValid = false for every transaction.
C7_NoMintNeverValid ==
    (Called /\ vCfg.tokenType # "SOL" /\ ~Truthy(vCfg.mintAddress)) =>
      /\ vRes.outcome = "resolved"
      /\ ~vRes.isValid

\* a token transfer of the expected amount to the recipient's token account
\* was refused because the expectation names no mint
C7_Witness ==
    /\ vPc = "verifyPaymentInstructions"
    /\ vCfg = Cfg("USDC", Num(1, 0), "R", Undefined, <<6>>)
    /\ vTx = TxObj(<<TokenTransfer(ATA("M", "P"), ATA("M", "R"), "P", 1000000)>>)
    /\ ~vRes.isValid

\* C8: verifyPaymentInstructions and X402SDK.verifyPayment never throw or
\* reject: for every transaction value and every expected configuration the
\* call resolves to {isValid: false, error} or {isValid: true, details}.
C8_VerifyNeverThrows ==
    Called =>
      /\ vRes.outcome = "resolved"
      /\ vRes.isValid => vRes.details # <<>>
      /\ ~vRes.isValid => (vRes.error # Undefined /\ vRes.details = <<>>)

\* a malformed recipient address made the verification fail with a result
C8_Witness ==
    /\ vPc = "verifyPaymentInstructions"
    /\ vCfg.recipient = "bad"
    /\ vTx.kind = "tx"
    /\ vRes = Resolved(FALSE, "Verification failed: Invalid public key input", <<>>)

\* the base-unit amount the verifier of the call compares against
ExpectedUnits == toTokenUnits(vCfg.amount, DecimalsOrDefault(vCfg)).val

\* a call with a fungible expectation for mint M and recipient R on a
\* Transaction object
FungibleExpectation ==
    /\ Called
    /\ vTx.kind = "tx"
    /\ vCfg.tokenType # "SOL"
    /\ vCfg.mintAddress = "M"
    /\ vCfg.recipient = "R"
    /\ vCfg.amount.kind = "num"

\* Transfer (tag 3) of at least `expected` to the recipient's token account
IsUncheckedTransferTo(ix, mint, recipient, expected) ==
    /\ ix.kind = "ix"
    /\ ix.programId = TOKEN_PROGRAM_ID
    /\ Len(ix.data) = 9
    /\ ix.data[1] = 3
    /\ LEValue(SubSeq(ix.data, 2, 9)) >= expected
    /\ Len(ix.keys) >= 3
    /\ ix.keys[2] = ATA(mint, recipient)

\* TransferChecked (tag 12, accounts [source, mint, destination, owner]) of
\* at least `expected` of the mint to the recipient's token account
IsCheckedTransferTo(ix, mint, recipient, expected) ==
    /\ ix.kind = "ix"
    /\ ix.programId = TOKEN_PROGRAM_ID
    /\ Len(ix.data) = 10
    /\ ix.data[1] = 12
    /\ LEValue(SubSeq(ix.data, 2, 9)) >= expected
    /\ Len(ix.keys) >= 4
    /\ ix.keys[2] = mint
    /\ ix.keys[3] = ATA(mint, recipient)

\* C21: for a fungible expectation the verifier accepts the unchecked and
\* the checked transfer of the token program alike: a transaction holding a
\* checked transfer of at least the expected amount of the expected mint to
\* the recipient's derived token account verifies isValid = true, as one
\* holding such an unchecked transfer does.
C21_CheckedTransferAccepted ==
    FungibleExpectation =>
      ((\E i \in DOMAIN vTx.instructions :
           \/ IsUncheckedTransferTo(vTx.instructions[i], "M", "R", ExpectedUnits)
           \/ IsCheckedTransferTo(vTx.instructions[i], "M", "R", ExpectedUnits))
        => vRes.isValid)

\* the unchecked half alone
C21_UncheckedTransferAccepted ==
    FungibleExpectation =>
      ((\E i \in DOMAIN vTx.instructions :
           IsUncheckedTransferTo(vTx.instructions[i], "M", "R", ExpectedUnits))
        => vRes.isValid)

\* C22: the expected base-unit amount of the verifier is computed with the
\* configuration's own decimals whenever decimals is set, decimals = 0
\* included; the default (9 for SOL, 6 otherwise) is used only when decimals
\* is absent. The amount is read from the details of an accepting result.
C22_ExpectedAmountUsesOwnDecimals ==
    (Called /\ vRes.isValid) =>
      vRes.details[1].amount = toTokenUnits(vCfg.amount, DecimalsOf(vCfg)).val

\* the same for configurations whose decimals are absent or not 0
C22_ExpectedAmountUsesNonZeroDecimals ==
    (Called /\ vRes.isValid /\ vCfg.decimals # <<0>>) =>
      vRes.details[1].amount = toTokenUnits(vCfg.amount, DecimalsOf(vCfg)).val

(***************************************************************************)
(* Properties of X402SDK.pay (SpecPay)                                     *)
(***************************************************************************)
\* the method of the call in flight: the caller's, else the SDK's default,
\* else auto
MethodInEffect ==
    IF payIn.opts.method # Undefined THEN payIn.opts.method
    ELSE IF sdk.defaultPaymentMethod # Undefined THEN sdk.defaultPaymentMethod
    ELSE "auto"

Routed == payPc \notin {"idle", "off"} /\ payPath # "none"

\* C9: with method auto the on-chain path is chosen if and only if the SDK
\* was configured with preferOnChain = true and the caller supplied a
\* payerKeypair, otherwise the facilitator path; method onchain always
\* selects the on-chain path and method facilitator the facilitator path.
C9_Routing ==
    Routed =>
      /\ payPath \in {"onchain", "facilitator"}
      /\ MethodInEffect = "auto" =>
           (payPath = "onchain" <=>
              (sdk.preferOnChain = "true" /\ payIn.opts.payerKeypair # Undefined))
      /\ MethodInEffect = "onchain" => payPath = "onchain"
      /\ MethodInEffect = "facilitator" => payPath = "facilitator"

\* an auto call with a keypair on an SDK that prefers on-chain is building
\* its transaction
C9_Witness ==
    /\ payPc = "build"
    /\ payPath = "onchain"
    /\ payIn.opts.method = Undefined
    /\ sdk.defaultPaymentMethod = Undefined
    /\ sdk.preferOnChain = "true"

\* no facilitator endpoint is configured: getFacilitatorUrl() gives undefined
\* or the empty string (the constructor's own test, `if (cfg.defaultFacilitator)`)
NoEndpointConfigured == ~Truthy(getFacilitatorUrl(sdk))

\* C10: a pay call that resolves to the facilitator path while no
\* facilitator endpoint is configured fails with the 'No facilitator
\* configured' error before any network call is made.
C10_NoFacilitatorFailsFirst ==
    [][(/\ payPc = "idle"
        /\ payPc' # "idle"
        /\ payPath' = "facilitator"
        /\ NoEndpointConfigured) =>
          (/\ payPc' = "done"
           /\ payOut' = Thrown(NoFacilitatorMessage)
           /\ net' = <<>>)]_vars

\* the same for an SDK that holds no facilitator client: none was given at
\* construction and setFacilitator was never called
C10_WithoutClientFailsFirst ==
    [][(/\ payPc = "idle"
        /\ payPc' # "idle"
        /\ payPath' = "facilitator"
        /\ sdk.facilitator = <<>>) =>
          (/\ payPc' = "done"
           /\ payOut' = Thrown(NoFacilitatorMessage)
           /\ net' = <<>>)]_vars

\* a facilitator-path call on an SDK whose endpoint was set to the empty
\* string has posted to a URL without a host
C10_EmptyEndpointPosted ==
    /\ payPath = "facilitator"
    /\ NoEndpointConfigured
    /\ net # <<>>
    /\ net[1].call = "POST /submit-payment"

\* a pay call is in progress or has settled
InCall == payPc \notin {"idle", "off"}

\* C11: pay validates the configuration before choosing a path: a call whose
\* configuration validateConfig rejects fails with 'Invalid payment
\* configuration: ' followed by the validation errors, no path is chosen and
\* no ledger call and no facilitator request is made.
C11_InvalidConfigFailsFirst ==
    (InCall /\ validateConfig(payIn.config) # <<>>) =>
      /\ payPc = "done"
      /\ payPath = "none"
      /\ payOut = Thrown("Invalid payment configuration: "
                            \o Join(validateConfig(payIn.config)))
      /\ net = <<>>

\* a call with a configuration that breaks several rules has failed
C11_Witness ==
    /\ payPc = "done"
    /\ Len(validateConfig(payIn.config)) >= 2
    /\ payOut.kind = "error"
    /\ net = <<>>

\* the ledger calls of the on-chain call in flight, by name
NetHas(name) == \E i \in DOMAIN net : net[i].call = name

\* C12: on the on-chain path simulation runs before submission unless
\* simulateFirst is false; after a simulation that reported an error the
\* transaction is never submitted and the call fails; after a confirmation
\* that reported an error the call fails; an ExecResponse with signature,
\* explorerUrl and paymentDetails is returned only after a confirmation
\* without error.
C12_OnChainOrder ==
    (InCall /\ payPath = "onchain") =>
      /\ \A i \in DOMAIN net :
           (net[i].call = "sendRawTransaction" /\ payIn.opts.simulateFirst # "false") =>
              /\ i > 1
              /\ net[i - 1] = Call("simulateTransaction", "ok")
      /\ \A i \in DOMAIN net :
           (net[i].call = "simulateTransaction" /\ net[i].answer # "ok") =>
              /\ ~NetHas("sendRawTransaction")
              /\ payPc = "done"
              /\ payOut.kind = "error"
      /\ \A i \in DOMAIN net :
           (net[i].call = "confirmTransaction" /\ net[i].answer # "ok") =>
              /\ payPc = "done"
              /\ payOut.kind = "error"
      /\ payOut.kind = "response" =>
           /\ net # <<>>
           /\ net[Len(net)] = Call("confirmTransaction", "ok")
           /\ payOut.txSignature # Undefined
           /\ payOut.explorerUrl # Undefined
           /\ payOut.paymentDetails # <<>>

\* an on-chain call that simulated, submitted and confirmed has returned
C12_Witness ==
    /\ payPath = "onchain"
    /\ payOut.kind = "response"
    /\ NetHas("simulateTransaction")
    /\ NetHas("sendRawTransaction")

\* C13: a facilitator call issues exactly one POST, to <baseUrl>/submit-payment
\* of the client; on a non-2xx answer it fails with an error carrying the
\* status and the body text; on a 2xx answer it returns the JSON body
\* untouched in raw and the signature from txSignature if that is present
\* (a non-empty value), else from signature if that is present.
C13_FacilitatorPost ==
    [][/\ (payPc = "idle" /\ payPc' = "post") =>
            /\ payUrl' = sdk.facilitator[1].baseUrl \o "/submit-payment"
            /\ net' = <<>>
       /\ (payPc = "post" /\ payPc' # "post") =>
            /\ payPc' = "done"
            /\ Len(net') = 1
            /\ net'[1].call = "POST " \o payUrl
            /\ LET response == net'[1].answer IN
               /\ response.kind = "notok" =>
                    payOut' = Thrown("Facilitator error " \o response.status
                                        \o ": " \o response.text)
               /\ response.kind = "throw" => payOut'.kind = "error"
               /\ response.kind = "ok" =>
                    /\ payOut'.kind = "response"
                    /\ payOut'.raw = <<response.json>>
                    /\ Truthy(response.json.txSignature) =>
                         payOut'.txSignature = response.json.txSignature
                    /\ (~Truthy(response.json.txSignature)
                          /\ Truthy(response.json.signature)) =>
                         payOut'.txSignature = response.json.signature]_vars

\* a facilitator answered 2xx with both signature fields and the call returned
C13_Witness ==
    /\ payPath = "facilitator"
    /\ payOut.kind = "response"
    /\ Len(net) = 1
    /\ Truthy(net[1].answer.json.txSignature)
    /\ Truthy(net[1].answer.json.signature)

\* a facilitator answered 500 and the call failed
C13_WitnessNotOk ==
    /\ payPath = "facilitator"
    /\ payOut.kind = "error"
    /\ Len(net) = 1
    /\ net[1].answer.status = "500"

\* C15: an SDK constructed without a preferOnChain setting prefers on-chain:
\* pay(config, {payerKeypair}) under the auto method takes the on-chain path
\* and does not need a facilitator.
C15_PreferOnChainDefaultsTrue ==
    (/\ Routed
     /\ sdk.preferOnChain = Undefined
     /\ MethodInEffect = "auto"
     /\ payIn.opts.payerKeypair # Undefined) =>
       /\ payPath = "onchain"
       /\ payOut # Thrown(NoFacilitatorMessage)

(***************************************************************************)
(* Properties of PaymentBuilder (SpecBuilder)                              *)
(***************************************************************************)
\* the presence rules a configuration violates, in the order the spec names them
ViolatedRules(config) ==
    (IF config.tokenType = Undefined THEN <<"Token type is required">> ELSE <<>>)
    \o (IF config.amount.kind = "undefined" THEN <<"Amount is required">> ELSE <<>>)
    \o (IF config.recipient = Undefined THEN <<"Recipient is required">> ELSE <<>>)
    \o (IF config.tokenType # "SOL" /\ config.mintAddress = Undefined
        THEN <<"Mint address is required for SPL token payments">> ELSE <<>>)

\* C14: build() fails when tokenType, amount or recipient is missing, or
\* mintAddress is missing for a non-SOL tokenType, and the failure lists all
\* the violated rules, not just the first one.
C14_BuildListsAllViolations ==
    (bRet.kind \in {"error", "config"}) =>
      /\ bRet.kind = "error" <=> ViolatedRules(bSnap) # <<>>
      /\ bRet.errors = ViolatedRules(bSnap)

\* build() fails exactly when a rule is violated (the part of C14 the code keeps)
C14_BuildFailsOnViolation ==
    (bRet.kind \in {"error", "config"}) =>
      (bRet.kind = "error" <=> ViolatedRules(bSnap) # <<>>)

\* C17: a PaymentConfig returned by build() is immutable: no later setter
\* call on the builder changes a field of the built configuration, which
\* keeps the values it had when build() returned it.
C17_BuiltConfigIsImmutable ==
    bRet.kind = "config" => BuiltConfig = bSnap

(***************************************************************************)
(* Properties of the unit conversions (SpecUnits)                          *)
(***************************************************************************)
\* the amount scaled by 10^decimals and truncated toward zero, exactly
TruncatedUnits(amount, decimals) ==
    DivSmall(MulPow10(FromInt(amount.digits), decimals), Pow10(amount.scale)).q

\* two doubles over a common power of two
Aligned(a, b) ==
    LET e == IF a.exp >= b.exp THEN a.exp ELSE b.exp
    IN [a |-> ShiftLeft(a.sig, e - a.exp), b |-> ShiftLeft(b.sig, e - b.exp), exp |-> e]

\* C18: toTokenUnits scales a non-negative amount by 10^decimals and
\* truncates toward zero; fromTokenUnits of the result is at most the amount,
\* differs from it by less than one base unit (10^-decimals), and equals it
\* when the amount has at most `decimals` fractional digits.
C18_UnitsRoundTrip ==
    /\ uPc \in {"units", "back"} => uUnits = TruncatedUnits(uAmount, uDecimals)
    /\ uPc = "back" =>
         LET al == Aligned(NumberOf(uAmount), uBack) IN
         /\ ~Less(al.a, al.b)
         /\ Less(MulPow10(Sub(al.a, al.b), uDecimals), ShiftLeft(<<1>>, al.exp))
         /\ uAmount.scale <= uDecimals => al.a = al.b

(***************************************************************************)
(* Properties of the x402 requirements (SpecX402)                          *)
(***************************************************************************)
\* C19: toX402Requirements yields scheme "exact" and the decimal string of
\* toTokenUnits(amount, decimals) as amount; fromX402Requirements of the
\* result recovers tokenType, recipient, mintAddress, decimals and
\* createAccountIfNeeded, and leaves the amount in base units: the original
\* amount scaled by 10^decimals.
C19_RequirementsRoundTrip ==
    /\ xPc \in {"requirements", "config"} =>
         /\ xReq.scheme = "exact"
         /\ xReq.amount =
              BigIntToString(toTokenUnitsBigInt(xCfg.amount, DecimalsOf(xCfg)))
    /\ xPc = "config" =>
         /\ xBack.tokenType = xCfg.tokenType
         /\ xBack.recipient = xCfg.recipient
         /\ xBack.mintAddress = xCfg.mintAddress
         /\ xBack.decimals = <<DecimalsOf(xCfg)>>
         /\ xBack.createAccountIfNeeded = xCfg.createAccountIfNeeded
         /\ xBack.amount =
              BigIntToString(TruncatedUnits(xCfg.amount, DecimalsOf(xCfg)))

\* the same for configurations whose decimals are absent or not 0 and whose
\* amount scales without a rounding error of the multiplication
C19_RoundTripOfExactAmounts ==
    (/\ xCfg.decimals # <<0>>
     /\ toTokenUnitsBigInt(xCfg.amount, DecimalsOf(xCfg))
          = TruncatedUnits(xCfg.amount, DecimalsOf(xCfg))) =>
       C19_RequirementsRoundTrip

(***************************************************************************)
(* Properties of the facilitator client of an SDK (SpecPay)                *)
(***************************************************************************)
\* the SDK holds a client exactly when its getFacilitatorUrl() is non-empty,
\* and the client's base URL is that URL without its trailing slash
ClientMatchesUrl ==
    /\ HasFacilitator(sdk) <=> Truthy(getFacilitatorUrl(sdk))
    /\ HasFacilitator(sdk) =>
         sdk.facilitator[1].baseUrl = StripTrailingSlash(getFacilitatorUrl(sdk))

\* a pay call that takes the facilitator path past the validation fails with
\* 'No facilitator configured' exactly when no URL is configured
PayFailsIffNoUrl ==
    (/\ payPc = "idle"
     /\ payPc' # "idle"
     /\ payPath' = "facilitator") =>
       (payOut' = Thrown(NoFacilitatorMessage) <=> ~Truthy(getFacilitatorUrl(sdk)))

\* the same for a payForResource call that takes the facilitator path
PayForResourceFailsIffNoUrl ==
    (/\ rPc = "idle"
     /\ rPc' # "idle"
     /\ rPath' = "facilitator") =>
       (rOut' = Thrown(NoFacilitatorMessage) <=> ~Truthy(getFacilitatorUrl(sdk)))

\* C28: after any sequence of construction and setFacilitator(url) calls,
\* the SDK holds a facilitator client if and only if getFacilitatorUrl()
\* returns a non-empty URL, the client posts to exactly that URL (trailing
\* slash removed), and a facilitator-path pay or payForResource fails with
\* 'No facilitator configured' exactly when no such URL is configured.
C28_ClientIffUrlConfigured ==
    /\ [](payPc # "off" => ClientMatchesUrl)
    /\ [][PayFailsIffNoUrl /\ PayForResourceFailsIffNoUrl]_vars

\* the same as long as setFacilitator was given no empty string
C28_ClientIffUrlUnlessSetEmpty ==
    /\ []((payPc # "off" /\ getFacilitatorUrl(sdk) # "") => ClientMatchesUrl)
    /\ [][getFacilitatorUrl(sdk) # ""
            => (PayFailsIffNoUrl /\ PayForResourceFailsIffNoUrl)]_vars

\* setFacilitator('') was called: a client is held while the URL is empty
C28_ClientWithoutUrl ==
    /\ payPc # "off"
    /\ HasFacilitator(sdk)
    /\ getFacilitatorUrl(sdk) = ""
    /\ sdk.facilitator[1].baseUrl = ""

(***************************************************************************)
(* Properties of the assembled transaction (SpecAssemble)                  *)
(***************************************************************************)
\* a transaction was assembled for a configuration of a fungible token
AssembledFungible ==
    /\ aPc \in {"assembled", "verified"}
    /\ aBuilt.ok
    /\ aCfg.tokenType # "SOL"

\* the instruction list of createSPLPaymentTransaction when the payer's and
\* the recipient's accounts are created as the flags say and the transfer
\* moves `units`
SPLInstructions(config, createPayer, createRecipient, units) ==
    (IF createPayer
     THEN <<CreateATA("P", ATA(config.mintAddress, "P"), "P", config.mintAddress)>>
     ELSE <<>>)
    \o (IF createRecipient /\ config.createAccountIfNeeded
        THEN <<CreateATA("P", ATA(config.mintAddress, config.recipient),
                         config.recipient, config.mintAddress)>>
        ELSE <<>>)
    \o <<TokenTransfer(ATA(config.mintAddress, "P"),
                       ATA(config.mintAddress, config.recipient), "P", units)>>

\* C23: createSPLPaymentTransaction builds its instruction list in this
\* order: an account-creation instruction for the payer's token account if
\* and only if that account does not exist; then one for the recipient's
\* token account if and only if it does not exist and createAccountIfNeeded
\* is true; then exactly one transfer instruction, always last, from the
\* payer's token account to the recipient's for toTokenUnits(amount,
\* config.decimals or the mint's decimals).
C23_InstructionOrder ==
    AssembledFungible =>
      aBuilt.tx.instructions =
        SPLInstructions(aCfg,
                        aLedger.payerAccount = "notfound",
                        aLedger.recipientAccount = "notfound",
                        toTokenUnits(aCfg.amount,
                                     IF aCfg.decimals # <<>> THEN aCfg.decimals[1]
                                     ELSE aLedger.mintInfo[1]).val)

\* the same when every lookup of an existing account succeeds and the
\* configuration's decimals are absent or not 0
C23_OrderWhenLookupsSucceed ==
    (/\ AssembledFungible
     /\ aLedger.payerAccount # "throw"
     /\ aLedger.recipientAccount # "throw"
     /\ aCfg.decimals # <<0>>) =>
       C23_InstructionOrder

\* the list as the code builds it: a creation for every failed lookup, and
\* the mint's decimals for a configuration whose decimals are 0
C23_OrderAsLookupsAnswer ==
    AssembledFungible =>
      aBuilt.tx.instructions =
        SPLInstructions(aCfg,
                        aLedger.payerAccount # "ok",
                        aLedger.recipientAccount # "ok",
                        toTokenUnits(aCfg.amount,
                                     DecimalsOrMint(aCfg, aLedger.mintInfo)).val)

(***************************************************************************)
(* Properties of the ledger calls of one payment attempt (SpecPay)         *)
(***************************************************************************)
\* how often a ledger call was issued in the attempt
TimesCalled(name) == Cardinality({i \in DOMAIN net : net[i].call = name})

\* the place of a ledger call in the order fetch, simulate, submit, confirm;
\* 0 for the lookups, which the order does not speak of
Rank(name) ==
    IF name = "getLatestBlockhash" THEN 1
    ELSE IF name = "simulateTransaction" THEN 2
    ELSE IF name = "sendRawTransaction" THEN 3
    ELSE IF name = "confirmTransaction" THEN 4
    ELSE 0

InOrder ==
    \A i, j \in DOMAIN net :
      (i < j /\ Rank(net[i].call) > 0 /\ Rank(net[j].call) > 0) =>
        Rank(net[i].call) <= Rank(net[j].call)

\* C24: within one on-chain payment attempt the ledger calls happen in the
\* order blockhash fetch, simulate, submit, confirm, and each of them is
\* issued at most once: nothing is retried or repeated.
C24_EachLedgerCallOnceInOrder ==
    payPath = "onchain" =>
      /\ InOrder
      /\ \A name \in {"getLatestBlockhash", "simulateTransaction",
                      "sendRawTransaction", "confirmTransaction"} :
           TimesCalled(name) <= 1

\* the order, and at most one simulate, submit and confirm
C24_OrderAndNoRetry ==
    payPath = "onchain" =>
      /\ InOrder
      /\ TimesCalled("getLatestBlockhash") <= 2
      /\ \A name \in {"simulateTransaction", "sendRawTransaction",
                      "confirmTransaction"} :
           TimesCalled(name) <= 1


\* C26: a transaction assembled for a configuration that validateConfig
\* accepts is accepted by verifyPaymentInstructions against that same
\* configuration (isValid = true), whatever the configuration's decimals and
\* the decimals the mint has on the ledger.
C26_AssembledIsAccepted ==
    (aPc = "verified" /\ validateConfig(aCfg) = <<>>) => aRes.isValid

\* the decimals createSPLPaymentTransaction and the verifier use agree, or
\* the mint's are the larger: the configuration's own non-zero decimals, or
\* mint decimals of at least 6
DecimalsAgree ==
    \/ ~AssembledFungible
    \/ (aCfg.decimals # <<>> /\ aCfg.decimals[1] # 0)
    \/ (aLedger.mintInfo # <<>> /\ aLedger.mintInfo[1] >= 6)

\* where the decimals agree the assembled transaction is accepted
C26_AcceptedWhenDecimalsAgree ==
    (aPc = "verified" /\ validateConfig(aCfg) = <<>> /\ DecimalsAgree)
        => aRes.isValid

\* where the assembler falls back to mint decimals below 6 it is rejected
C26_RejectedBelowSixMintDecimals ==
    (aPc = "verified" /\ validateConfig(aCfg) = <<>> /\ ~DecimalsAgree)
        => ~aRes.isValid

\* the base units moved by the transfer that ends the assembled transaction
AssembledUnits ==
    LET ix == aBuilt.tx.instructions[Len(aBuilt.tx.instructions)] IN
    IF aCfg.tokenType = "SOL" THEN LEValue(SubSeq(ix.data, 5, 12))
    ELSE LEValue(SubSeq(ix.data, 2, 9))

\* the base-unit amount the verifier expects for the assembled configuration
AssembledExpectation == toTokenUnits(aCfg.amount, DecimalsOrDefault(aCfg)).val

\* C27: an accepted transaction transfers a strictly positive amount. For a
\* configuration that validateConfig accepts (amount > 0) the expected
\* base-unit amount is at least 1, and a transaction whose transfer to the
\* recipient moves 0 base units is never verified.
C27_AcceptedTransfersPositive ==
    (aPc = "verified" /\ validateConfig(aCfg) = <<>>) =>
        /\ AssembledExpectation >= 1
        /\ aRes.isValid => AssembledUnits >= 1

\* where the expectation is at least one base unit, the accepted transfer is
\* positive
C27_PositiveAboveOneBaseUnit ==
    (aPc = "verified" /\ validateConfig(aCfg) = <<>>
       /\ AssembledExpectation >= 1 /\ aRes.isValid)
      => AssembledUnits >= 1

\* an assembled transfer of 0 base units is accepted whenever the expectation
\* is 0
C27_ZeroAcceptedBelowOneBaseUnit ==
    (aPc = "verified" /\ validateConfig(aCfg) = <<>>
       /\ AssembledExpectation = 0 /\ AssembledUnits = 0)
      => aRes.isValid

\* a transfer of 0 base units was assembled for a valid configuration and
\* accepted
C27_ZeroTransferAccepted ==
    /\ aPc = "verified" /\ validateConfig(aCfg) = <<>>
    /\ AssembledUnits = 0 /\ aRes.isValid

(***************************************************************************)
(* Properties of payForResource on the on-chain path (SpecPay)             *)
(***************************************************************************)
\* the account credited by the transfer payForResource sent
SentTo == rNet[1].tx.instructions[1].keys[2]

\* C30: on its on-chain path (preferOnChain set and a payerKeypair given)
\* payForResource sends the transfer to paymentReq.payment_payload.recipient,
\* and the paymentDetails.recipient it returns is that recipient.
C30_PaysTheRequestedRecipient ==
    (rPath = "onchain" /\ rNet # <<>>) =>
      /\ SentTo = rReq.payment_payload.recipient
      /\ (rPc = "done" /\ rOut.kind = "response") =>
           rOut.paymentDetails[1].recipient = rReq.payment_payload.recipient

\* the transfer goes to the payer's own account, and that is the recipient
\* returned
C30_PaysThePayer ==
    (rPath = "onchain" /\ rNet # <<>>) =>
      /\ SentTo = rOpts.payerKeypair
      /\ (rPc = "done" /\ rOut.kind = "response") =>
           rOut.paymentDetails[1].recipient = rOpts.payerKeypair

\* an on-chain payForResource for recipient R has returned
C30_ReturnedOnChain ==
    /\ rPath = "onchain" /\ rPc = "done" /\ rOut.kind = "response"
    /\ rReq.payment_payload.recipient = "R"
====
